---- MODULE Spec2Model ----
(***************************************************************************)
(* mevis: filtering of an AtomSpace (or a list of Atoms) and conversion of *)
(* the selected Atoms to a graph.                                          *)
(*                                                                         *)
(* An Atom is the value [type, name, out]: a Node has a name and no        *)
(* outgoing Atoms, a Link has an outgoing sequence of Atoms and the empty  *)
(* name.  An AtomSpace is a set of Atoms that holds the outgoing Atoms of  *)
(* each of its Links; the incoming set of an Atom is taken in it.          *)
(* A Python str that the code lower-cases is a sequence of characters;     *)
(* a Python value whose type the code inspects is a record [kind, val].    *)
(***************************************************************************)
EXTENDS Integers, Sequences, FiniteSets, TLC

VARIABLES atomspace, input, call, result, files

vars == <<atomspace, input, call, result, files>>

\* -------------------------------------------------------------- bounds
MaxAtoms == 3

\* ------------------------------------------------------- Python values
Range(s) == {s[i] : i \in DOMAIN s}

\* F(v), with v computed once: the value that a statement has assigned to a
\* name, used by the statements after it
With(v, F(_)) == CHOOSE r \in {F(x) : x \in {v}} : TRUE

UpperCase == <<"A","B","C","D","E","F","G","H","I","J","K","L","M",
               "N","O","P","Q","R","S","T","U","V","W","X","Y","Z">>
LowerCase == <<"a","b","c","d","e","f","g","h","i","j","k","l","m",
               "n","o","p","q","r","s","t","u","v","w","x","y","z">>

lower_char(c) ==
    IF \E i \in DOMAIN UpperCase : UpperCase[i] = c
    THEN LowerCase[CHOOSE i \in DOMAIN UpperCase : UpperCase[i] = c]
    ELSE c

\* str.lower()
lower(s) == [i \in DOMAIN s |-> lower_char(s[i])]

PyStr(s) == [kind |-> "str", val |-> s]
PyInt(n) == [kind |-> "int", val |-> n]
PyAtom(a) == [kind |-> "Atom", val |-> a]
PyList(l) == [kind |-> "list", val |-> l]
PyCallable(f) == [kind |-> "Callable", val |-> f]
PyTuple(t) == [kind |-> "tuple", val |-> t]
PyAtomSpace(S) == [kind |-> "AtomSpace", val |-> S]

\* ------------------------------------------------------- OpenCog Atoms
types == [PredicateNode |-> 1, AndLink |-> 2, NotLink |-> 3, FileStorageNode |-> 4]

NodeTypes == {types.PredicateNode, types.FileStorageNode}
LinkTypes == {types.AndLink, types.NotLink}

type_name(atom) ==
    CASE atom.type = types.PredicateNode ->
           <<"P","r","e","d","i","c","a","t","e","N","o","d","e">>
      [] atom.type = types.AndLink -> <<"A","n","d","L","i","n","k">>
      [] atom.type = types.NotLink -> <<"N","o","t","L","i","n","k">>
      [] atom.type = types.FileStorageNode ->
           <<"F","i","l","e","S","t","o","r","a","g","e","N","o","d","e">>

is_node(atom) == atom.type \in NodeTypes
is_link(atom) == atom.type \in LinkTypes

Node(t, name) == [type |-> t, name |-> name, out |-> <<>>]
Link(t, out) == [type |-> t, name |-> <<>>, out |-> out]

\* atom.incoming: the Links of the Atom's AtomSpace that hold it, as a list
\* in the order ord in which the AtomSpace enumerates its Atoms
incoming(atom, ord) ==
    SelectSeq(ord, LAMBDA l : \E i \in DOMAIN l.out : l.out[i] = atom)

\* list(s) for a set s of Atoms: its elements in the enumeration order ord
list(s, ord) == SelectSeq(ord, LAMBDA a : a \in s)

RECURSIVE SetToSeq(_)
SetToSeq(S) ==
    IF S = {} THEN <<>>
    ELSE LET x == CHOOSE y \in S : TRUE IN <<x>> \o SetToSeq(S \ {x})

Reverse(s) == [i \in DOMAIN s |-> s[Len(s) + 1 - i]]

\* the order in which an AtomSpace enumerates its Atoms is not specified:
\* one order and its reverse are tried
Orders == {"forward", "backward"}

Enumerate(S, o) == IF o = "forward" THEN SetToSeq(S) ELSE Reverse(SetToSeq(S))

\* ----------------------------------------------------------- args.py
\* check_arg(val, name, types, values): the exception raised, or "ok"
check_arg(val, kinds, values) ==
    IF val.kind \notin kinds THEN "TypeError"
    ELSE IF values # {} /\ val.val \notin values THEN "ValueError"
    ELSE "ok"

\* the first of the checks that does not say "ok", or "ok"
RECURSIVE first_error(_)
first_error(checks) ==
    IF checks = <<>> THEN "ok"
    ELSE IF Head(checks) # "ok" THEN Head(checks)
    ELSE first_error(Tail(checks))

\* _check_arg(val, name, types, values, allow_none=True)
check_arg_or_none(val, kinds, values) ==
    IF val.kind = "None" THEN "ok" ELSE check_arg(val, kinds, values)

\* ------------------------------------------------------- filtering.py
FILTER_CONTEXTS == {"atom", "in", "out", "both", "in-tree", "out-tree"}

\* mutant: the str target is compared as it is given, not lower-cased
filter_func_case_sensitive(target, atom) ==
    CASE target.kind = "str" ->
           \/ lower(atom.name) = target.val
           \/ lower(type_name(atom)) = target.val
      [] target.kind = "int" -> atom.type = target.val
      [] target.kind = "list" ->
           LET tset == {IF x.kind = "str" THEN PyStr(lower(x.val)) ELSE x :
                           x \in Range(target.val)}
           IN  \/ PyStr(lower(type_name(atom))) \in tset
               \/ PyStr(lower(atom.name)) \in tset
               \/ PyInt(atom.type) \in tset
               \/ PyAtom(atom) \in tset
      [] target.kind = "Callable" ->
           CASE target.val = "is_link" -> is_link(atom)
             [] target.val = "is_node" -> is_node(atom)

\* the function of _prepare_filter_func(target), applied to atom
filter_func(target, atom) ==
    CASE target.kind = "str" ->
           \/ lower(atom.name) = lower(target.val)
           \/ lower(type_name(atom)) = lower(target.val)
      [] target.kind = "int" -> atom.type = target.val
      [] target.kind = "list" ->
           LET tset == {IF x.kind = "str" THEN PyStr(lower(x.val)) ELSE x :
                           x \in Range(target.val)}
           IN  \/ PyStr(lower(type_name(atom))) \in tset
               \/ PyStr(lower(atom.name)) \in tset
               \/ PyInt(atom.type) \in tset
               \/ PyAtom(atom) \in tset
      [] target.kind = "Callable" ->
           CASE target.val = "is_link" -> is_link(atom)
             [] target.val = "is_node" -> is_node(atom)

RECURSIVE dfs_loop_no_push(_, _, _, _)
\* mutant: the neighbours of a popped Atom are not pushed on the stack
dfs_loop_no_push(atoms, stack, dir, ord) ==
    IF stack = <<>> THEN atoms
    ELSE dfs_loop_no_push(Append(atoms, Head(stack)), Tail(stack), dir, ord)

RECURSIVE dfs_loop(_, _, _, _)
\* the while loop of _dfs_out (dir = "out") and _dfs_in (dir = "in")
dfs_loop(atoms, stack, dir, ord) ==
    IF stack = <<>> THEN atoms
    ELSE LET atom == Head(stack)
             next == IF dir = "out" THEN atom.out ELSE incoming(atom, ord)
         IN  dfs_loop(Append(atoms, atom), next \o Tail(stack), dir, ord)

\* mutant: an Atom that was appended before is not pushed again
dfs_step_visited(atoms, stack, dir, ord) ==
    LET atom == Head(stack)
        next == IF dir = "out" THEN atom.out ELSE incoming(atom, ord)
    IN  [atoms |-> Append(atoms, atom),
         stack |-> SelectSeq(next, LAMBDA a : a \notin Range(atoms)) \o Tail(stack)]

\* one pass of the while loop of _dfs_out (dir = "out") and _dfs_in
\* (dir = "in"): atom = stack.pop(0); atoms.append(atom); stack[0:0] = ...
dfs_step(atoms, stack, dir, ord) ==
    LET atom == Head(stack)
        next == IF dir = "out" THEN atom.out ELSE incoming(atom, ord)
    IN  [atoms |-> Append(atoms, atom), stack |-> next \o Tail(stack)]

_dfs_out(atom, ord) == dfs_loop(<<atom>>, atom.out, "out", ord)

_dfs_in(atom, ord) == dfs_loop(<<atom>>, incoming(atom, ord), "in", ord)

\* mutant: 'both' adds the incoming neighbours only
expand_once_both_as_in(atoms, context, ord) ==
    LET expansion ==
          UNION {{atoms[i]}
                 \cup (IF context \in {"in", "both"}
                       THEN Range(incoming(atoms[i], ord)) ELSE {})
                 \cup (IF context \in {"out"}
                       THEN Range(atoms[i].out) ELSE {}) : i \in DOMAIN atoms}
    IN  list(expansion, ord)

\* one pass of the loop "for _ in range(context_size)" of _expand
expand_once(atoms, context, ord) ==
    LET expansion ==
          UNION {{atoms[i]}
                 \cup (IF context \in {"in", "both"}
                       THEN Range(incoming(atoms[i], ord)) ELSE {})
                 \cup (IF context \in {"out", "both"}
                       THEN Range(atoms[i].out) ELSE {}) : i \in DOMAIN atoms}
    IN  list(expansion, ord)

RECURSIVE expand_loop_one_short(_, _, _, _)
\* mutant: the loop runs context_size - 1 times
expand_loop_one_short(atoms, context, n, ord) ==
    IF n <= 1 THEN atoms
    ELSE expand_loop_one_short(expand_once(atoms, context, ord), context, n - 1, ord)

RECURSIVE expand_loop(_, _, _, _)
\* the loop "for _ in range(context_size)" of _expand
expand_loop(atoms, context, n, ord) ==
    IF n <= 0 THEN atoms
    ELSE expand_loop(expand_once(atoms, context, ord), context, n - 1, ord)

\* mutant: 'in-tree' and 'out-tree' add the neighbours once
_expand_tree_once(atoms, context, context_size, ord) ==
    CASE context \in {"in", "out", "both"} ->
           expand_loop(atoms, context, context_size, ord)
      [] context = "in-tree" -> expand_once(atoms, "in", ord)
      [] context = "out-tree" -> expand_once(atoms, "out", ord)
      [] OTHER -> atoms

_expand(atoms, context, context_size, ord) ==
    CASE context \in {"in", "out", "both"} ->
           expand_loop(atoms, context, context_size, ord)
      [] context = "in-tree" ->
           list(UNION {Range(_dfs_in(atoms[i], ord)) : i \in DOMAIN atoms}, ord)
      [] context = "out-tree" ->
           list(UNION {Range(_dfs_out(atoms[i], ord)) : i \in DOMAIN atoms}, ord)
      [] OTHER -> atoms

\* mutant: 'exclude' keeps the selected Atoms of given
_include_or_exclude_kept(selected, given, mode) ==
    IF mode = "exclude"
    THEN SelectSeq(given, LAMBDA atom : atom \in Range(selected))
    ELSE selected

\* mutant: the mode is ignored
_include_or_exclude_ignored(selected, given, mode) == selected

_include_or_exclude(selected, given, mode) ==
    IF mode = "exclude"
    THEN SelectSeq(given, LAMBDA atom : atom \notin Range(selected))
    ELSE selected

Raise(e) == [err |-> e, atoms |-> <<>>]
Return(atoms) == [err |-> "none", atoms |-> atoms]

\* mutant: a negative size is accepted
check_tuple_no_sign(context, size) ==
    IF check_arg(context, {"str"}, {"in", "out", "both"}) # "ok"
    THEN check_arg(context, {"str"}, {"in", "out", "both"})
    ELSE check_arg(size, {"int"}, {})

\* the argument processing of filter for a tuple context: the exception
\* raised inside the try block, or "ok"
check_tuple(context, size) ==
    IF check_arg(context, {"str"}, {"in", "out", "both"}) # "ok"
    THEN check_arg(context, {"str"}, {"in", "out", "both"})
    ELSE IF check_arg(size, {"int"}, {}) # "ok"
    THEN check_arg(size, {"int"}, {})
    ELSE IF size.val < 0 THEN "ValueError"
    ELSE "ok"

\* "for atom in data": an AtomSpace enumerates its Atoms in the order ord
iterate(data, ord) ==
    IF data.kind = "AtomSpace" THEN list(data.val, ord) ELSE data.val

\* filter(data, target, context, mode)
filter(data, target, context, mode, ord) ==
    LET given_atoms == iterate(data, ord)
        selected(ctx, size) ==
          LET sel == IF target.kind = "Atom" THEN <<target.val>>
                     ELSE SelectSeq(given_atoms,
                                    LAMBDA atom : filter_func(target, atom))
          IN  Return(_include_or_exclude(_expand(sel, ctx, size, ord),
                                         given_atoms, mode.val))
    IN
    IF check_arg(data, {"list", "AtomSpace"}, {}) # "ok"
    THEN Raise(check_arg(data, {"list", "AtomSpace"}, {}))
    ELSE IF check_arg(target, {"str", "int", "list", "Callable", "Atom"}, {}) # "ok"
    THEN Raise(check_arg(target, {"str", "int", "list", "Callable", "Atom"}, {}))
    ELSE IF check_arg(mode, {"str"}, {"include", "exclude"}) # "ok"
    THEN Raise(check_arg(mode, {"str"}, {"include", "exclude"}))
    ELSE IF context.kind = "tuple"
    THEN IF Len(context.val) # 2 THEN Raise("ValueError")
         ELSE IF check_tuple(context.val[1], context.val[2]) # "ok"
         THEN Raise("ValueError")
         ELSE selected(context.val[1].val, context.val[2].val)
    ELSE IF check_arg(context, {"str"}, FILTER_CONTEXTS) # "ok"
    THEN Raise(check_arg(context, {"str"}, FILTER_CONTEXTS))
    ELSE selected(context.val, 1)


\* ------------------------------------------------------ conversion.py
PyNone == [kind |-> "None"]
PyBool(b) == [kind |-> "bool", val |-> b]
PyDict(d) == [kind |-> "dict", val |-> d]
PyFloat(n) == [kind |-> "float", val |-> n]

\* atom.id_string(): an identifier that is unique for the Atom
to_uid(atom) == [id |-> atom]

RECURSIVE short_string(_)
RECURSIVE short_strings(_)
\* atom.short_string(): the Atom written as an s-expression
short_string(atom) ==
    IF is_node(atom)
    THEN <<"(">> \o type_name(atom) \o <<" ", "\"">> \o atom.name \o <<"\"", ")">>
    ELSE <<"(">> \o type_name(atom) \o short_strings(atom.out) \o <<")">>

short_strings(atoms) ==
    IF atoms = <<>> THEN <<>>
    ELSE <<" ">> \o short_string(Head(atoms)) \o short_strings(Tail(atoms))

\* the default functions for node annotations
node_label_default(atom) ==
    IF is_node(atom)
    THEN PyStr(type_name(atom) \o <<" ", "\"">> \o atom.name \o <<"\"">>)
    ELSE PyStr(type_name(atom))
node_color_default(atom) == IF is_node(atom) THEN PyStr(<<"r","e","d">>) ELSE PyNone
node_opacity_default(atom) == PyNone
node_size_default(atom) == PyNone
node_shape_default(atom) ==
    IF is_node(atom) THEN PyStr(<<"r","e","c","t","a","n","g","l","e">>) ELSE PyNone
node_border_color_default(atom) == PyNone
node_border_size_default(atom) == PyNone
node_label_color_default(atom) == PyNone
node_label_size_default(atom) == PyNone
node_hover_default(atom) == PyStr(short_string(atom))
node_click_default(atom) == PyNone
node_image_default(atom) == PyNone
node_properties_default(atom) == PyNone

\* the default functions for edge annotations
edge_label_default(atom1, atom2) == PyNone
edge_color_default(atom1, atom2) ==
    IF is_link(atom1) /\ is_link(atom2) THEN PyNone ELSE PyStr(<<"r","e","d">>)
edge_opacity_default(atom1, atom2) == PyNone
edge_size_default(atom1, atom2) == PyNone
edge_label_color_default(atom1, atom2) == PyNone
edge_label_size_default(atom1, atom2) == PyNone
edge_hover_default(atom1, atom2) == PyNone
edge_click_default(atom1, atom2) == PyNone

\* use_node_def_or_str, use_node_def_or_num, use_edge_def_or_str and
\* use_edge_def_or_num: the value of the annotation function they return, given
\* the value default of the default function; a Callable argument is a
\* function that returns its name for a Node and None for a Link
use_def_or_str(given_value, default, atom) ==
    CASE given_value.kind = "None" -> default
      [] given_value.kind = "str" -> given_value
      [] given_value.kind = "Callable" ->
           IF is_node(atom) THEN PyStr(<<given_value.val>>) ELSE PyNone

use_def_or_num(given_value, default, atom) ==
    CASE given_value.kind = "None" -> default
      [] given_value.kind \in {"int", "float"} -> PyFloat(given_value.val)
      [] given_value.kind = "Callable" ->
           IF is_node(atom) THEN PyFloat(1) ELSE PyNone

\* mutant: a value of None is kept in the dict
dict_with_none(name_val) ==
    [n \in {name_val[i][1] : i \in DOMAIN name_val} |->
        name_val[CHOOSE i \in DOMAIN name_val : name_val[i][1] = n][2]]

\* a dict from the (name, value) pairs whose value is not None
dict(name_val) ==
    LET kept == {i \in DOMAIN name_val : name_val[i][2].kind # "None"}
    IN  [n \in {name_val[i][1] : i \in kept} |->
            name_val[CHOOSE i \in kept : name_val[i][1] = n][2]]

\* dict.update: the entries of new override those of old
update(old, new) == new @@ old

\* an exception that a call has raised, in the place of the value returned
Raised(e) == [kind |-> "raise", val |-> e]

\* atom.tv of an Atom whose truth value was not set: mean 1, confidence 0
node_properties_tv(atom) == PyDict([mean |-> PyFloat(1), confidence |-> PyFloat(0)])

\* node_properties(atom) for the functions that callers pass
call_properties(f, atom) ==
    CASE f = "raise" -> Raised("KeyError")
      [] f = "none" -> PyNone
      [] f = "number" -> PyInt(5)
      [] f = "for_nodes" ->
           IF is_node(atom)
           THEN PyDict([label |-> PyStr(<<"p">>), extra |-> PyInt(1)])
           ELSE Raised("AttributeError")
      [] f = "pairs" ->
           PyList(<<PyTuple(<<"label", PyStr(<<"p">>)>>), PyInt(5),
                    PyTuple(<<"extra", PyInt(1)>>)>>)
      [] OTHER -> PyNone

RECURSIVE update_from_pairs(_, _)
\* dict.update(iterable): every element has to be a (key, value) pair; the
\* pairs before an element that is none have been put in the dict when the
\* error is raised
update_from_pairs(data, elements) ==
    IF elements = <<>> THEN [data |-> data, err |-> "none"]
    ELSE IF Head(elements).kind # "tuple" \/ Len(Head(elements).val) # 2
    THEN [data |-> data, err |-> "TypeError"]
    ELSE update_from_pairs(update(data, Head(elements).val[1] :> Head(elements).val[2]),
                           Tail(elements))

\* data.update(other) of Python: the dict afterwards and the error raised
dict_update(data, other) ==
    CASE other.kind = "dict" -> [data |-> update(data, other.val), err |-> "none"]
      [] other.kind \in {"list", "tuple"} -> update_from_pairs(data, other.val)
      [] OTHER -> [data |-> data, err |-> "TypeError"]

\* mutant: an error of node_properties leaves the node without annotations
node_func_drops(args, atom) ==
    LET data == dict(<<
          <<"label", use_def_or_str(args.node_label, node_label_default(atom), atom)>>,
          <<"color", use_def_or_str(args.node_color, node_color_default(atom), atom)>>,
          <<"opacity", use_def_or_num(args.node_opacity, node_opacity_default(atom), atom)>>,
          <<"size", use_def_or_num(args.node_size, node_size_default(atom), atom)>>,
          <<"shape", use_def_or_str(args.node_shape, node_shape_default(atom), atom)>>,
          <<"border_color",
            use_def_or_str(args.node_border_color, node_border_color_default(atom), atom)>>,
          <<"border_size",
            use_def_or_num(args.node_border_size, node_border_size_default(atom), atom)>>,
          <<"label_color",
            use_def_or_str(args.node_label_color, node_label_color_default(atom), atom)>>,
          <<"label_size",
            use_def_or_num(args.node_label_size, node_label_size_default(atom), atom)>>,
          <<"hover", use_def_or_str(args.node_hover, node_hover_default(atom), atom)>>,
          <<"click", use_def_or_str(args.node_click, node_click_default(atom), atom)>>,
          <<"image", use_def_or_str(args.node_image, node_image_default(atom), atom)>> >>)
        properties ==
          CASE args.node_properties.kind = "None" -> node_properties_default(atom)
            [] args.node_properties.kind = "dict" -> args.node_properties
            [] args.node_properties.kind = "str" ->
                 IF args.node_properties.val = <<"t", "v">>
                 THEN node_properties_tv(atom) ELSE Raised("TypeError")
            [] args.node_properties.kind = "Callable" ->
                 call_properties(args.node_properties.val, atom)
    IN  IF properties.kind = "raise" THEN <<>>
        ELSE IF dict_update(data, properties).err # "none" THEN <<>>
        ELSE dict_update(data, properties).data

\* the function func(atom) that prepare_node_func returns, applied to atom
node_func(args, atom) ==
    LET data == dict(<<
          <<"label", use_def_or_str(args.node_label, node_label_default(atom), atom)>>,
          <<"color", use_def_or_str(args.node_color, node_color_default(atom), atom)>>,
          <<"opacity", use_def_or_num(args.node_opacity, node_opacity_default(atom), atom)>>,
          <<"size", use_def_or_num(args.node_size, node_size_default(atom), atom)>>,
          <<"shape", use_def_or_str(args.node_shape, node_shape_default(atom), atom)>>,
          <<"border_color",
            use_def_or_str(args.node_border_color, node_border_color_default(atom), atom)>>,
          <<"border_size",
            use_def_or_num(args.node_border_size, node_border_size_default(atom), atom)>>,
          <<"label_color",
            use_def_or_str(args.node_label_color, node_label_color_default(atom), atom)>>,
          <<"label_size",
            use_def_or_num(args.node_label_size, node_label_size_default(atom), atom)>>,
          <<"hover", use_def_or_str(args.node_hover, node_hover_default(atom), atom)>>,
          <<"click", use_def_or_str(args.node_click, node_click_default(atom), atom)>>,
          <<"image", use_def_or_str(args.node_image, node_image_default(atom), atom)>> >>)
        properties ==
          CASE args.node_properties.kind = "None" -> node_properties_default(atom)
            [] args.node_properties.kind = "dict" -> args.node_properties
            [] args.node_properties.kind = "str" ->
                 \* calling a str raises TypeError
                 IF args.node_properties.val = <<"t", "v">>
                 THEN node_properties_tv(atom) ELSE Raised("TypeError")
            [] args.node_properties.kind = "Callable" ->
                 call_properties(args.node_properties.val, atom)
    IN  \* try: data.update(node_properties(atom)); except Exception: pass
        IF properties.kind = "raise" THEN data
        ELSE dict_update(data, properties).data

\* the function func(atom1, atom2) that prepare_edge_func returns
edge_func(args, atom1, atom2) ==
    dict(<<
      <<"label", use_def_or_str(args.edge_label, edge_label_default(atom1, atom2), atom1)>>,
      <<"color", use_def_or_str(args.edge_color, edge_color_default(atom1, atom2), atom1)>>,
      <<"opacity",
        use_def_or_num(args.edge_opacity, edge_opacity_default(atom1, atom2), atom1)>>,
      <<"size", use_def_or_num(args.edge_size, edge_size_default(atom1, atom2), atom1)>>,
      <<"label_color",
        use_def_or_str(args.edge_label_color, edge_label_color_default(atom1, atom2), atom1)>>,
      <<"label_size",
        use_def_or_num(args.edge_label_size, edge_label_size_default(atom1, atom2), atom1)>>,
      <<"hover", use_def_or_str(args.edge_hover, edge_hover_default(atom1, atom2), atom1)>>,
      <<"click", use_def_or_str(args.edge_click, edge_click_default(atom1, atom2), atom1)>> >>)

\* mutant: the annotation function is prepared whatever graph_annotated says
node_ann_always(graph_annotated, args, atom) == node_func(args, atom)

\* node_ann and edge_ann of convert
node_ann(graph_annotated, args, atom) ==
    IF graph_annotated THEN node_func(args, atom) ELSE <<>>

edge_ann(graph_annotated, args, atom1, atom2) ==
    IF graph_annotated THEN edge_func(args, atom1, atom2) ELSE <<>>

\* networkx: a graph holds the attributes of each node and of each edge; an
\* edge of a DiGraph is the pair (u, v), an edge of a Graph the set {u, v}
new_graph(directed) ==
    [directed |-> directed, graph |-> [node_click |-> "$hover"],
     nodes |-> <<>>, edges |-> <<>>]

add_node(graph, n, attr) ==
    [graph EXCEPT !.nodes =
        IF n \in DOMAIN graph.nodes
        THEN [graph.nodes EXCEPT ![n] = update(@, attr)]
        ELSE graph.nodes @@ (n :> attr)]

add_edge(graph, u, v, attr) ==
    LET e == IF graph.directed THEN <<u, v>> ELSE {u, v}
        with_nodes ==
          [graph EXCEPT !.nodes =
              graph.nodes @@ [n \in {u, v} \ DOMAIN graph.nodes |-> <<>>]]
    IN  [with_nodes EXCEPT !.edges =
            IF e \in DOMAIN graph.edges
            THEN [graph.edges EXCEPT ![e] = update(@, attr)]
            ELSE graph.edges @@ (e :> attr)]

RECURSIVE add_nodes(_, _, _, _)
\* step 1 of convert: "for atom in data: graph.add_node(...)"
add_nodes(graph, atoms, graph_annotated, args) ==
    IF atoms = <<>> THEN graph
    ELSE add_nodes(add_node(graph, to_uid(Head(atoms)),
                            node_ann(graph_annotated, args, Head(atoms))),
                   Tail(atoms), graph_annotated, args)

\* mutant: an edge is added without looking whether its other end is a node
edges_of_unchecked(graph, atom, ord) ==
    IF is_link(atom)
    THEN [i \in DOMAIN incoming(atom, ord) |-> <<incoming(atom, ord)[i], atom>>]
         \o [i \in DOMAIN atom.out |-> <<atom, atom.out[i]>>]
    ELSE <<>>

\* the edges (atom1, atom2) that one pass of the loop of step 2 adds for
\* atom, in the order in which it adds them
edges_of(graph, atom, ord) ==
    IF is_link(atom)
    THEN SelectSeq([i \in DOMAIN incoming(atom, ord) |-> <<incoming(atom, ord)[i], atom>>],
                   LAMBDA e : to_uid(e[1]) \in DOMAIN graph.nodes)
         \o SelectSeq([i \in DOMAIN atom.out |-> <<atom, atom.out[i]>>],
                      LAMBDA e : to_uid(e[2]) \in DOMAIN graph.nodes)
    ELSE <<>>

RECURSIVE add_edges_swapped(_, _, _, _)
\* mutant: the annotation of an edge is computed from (atom2, atom1)
add_edges_swapped(graph, edges, graph_annotated, args) ==
    IF edges = <<>> THEN graph
    ELSE add_edges_swapped(add_edge(graph, to_uid(Head(edges)[1]), to_uid(Head(edges)[2]),
                                    edge_ann(graph_annotated, args, Head(edges)[2], Head(edges)[1])),
                           Tail(edges), graph_annotated, args)

RECURSIVE add_edges(_, _, _, _)
add_edges(graph, edges, graph_annotated, args) ==
    IF edges = <<>> THEN graph
    ELSE add_edges(add_edge(graph, to_uid(Head(edges)[1]), to_uid(Head(edges)[2]),
                            edge_ann(graph_annotated, args, Head(edges)[1], Head(edges)[2])),
                   Tail(edges), graph_annotated, args)

RECURSIVE add_links(_, _, _, _, _)
\* step 2 of convert: "for atom in data: ... graph.add_edge(...)"
add_links(graph, atoms, graph_annotated, args, ord) ==
    IF atoms = <<>> THEN graph
    ELSE add_links(add_edges(graph, edges_of(graph, Head(atoms), ord),
                             graph_annotated, args),
                   Tail(atoms), graph_annotated, args, ord)

RaiseGraph(e) == [err |-> e, graph |-> new_graph(TRUE)]
ReturnGraph(graph) == [err |-> "none", graph |-> graph]

\* "Argument processing" of convert for the annotation arguments
convert_checks(args) ==
    first_error(<<
        check_arg_or_none(args.node_label, {"str", "Callable"}, {}),
        check_arg_or_none(args.node_color, {"str", "Callable"}, {}),
        check_arg_or_none(args.node_opacity, {"int", "float", "Callable"}, {}),
        check_arg_or_none(args.node_size, {"int", "float", "Callable"}, {}),
        check_arg_or_none(args.node_shape, {"str", "Callable"}, {}),
        check_arg_or_none(args.node_border_color, {"str", "Callable"}, {}),
        check_arg_or_none(args.node_border_size, {"int", "float", "Callable"}, {}),
        check_arg_or_none(args.node_label_color, {"str", "Callable"}, {}),
        check_arg_or_none(args.node_label_size, {"int", "float", "Callable"}, {}),
        check_arg_or_none(args.node_hover, {"str", "Callable"}, {}),
        check_arg_or_none(args.node_click, {"str", "Callable"}, {}),
        check_arg_or_none(args.node_image, {"str", "Callable"}, {}),
        check_arg_or_none(args.node_properties, {"str", "dict", "Callable"}, {}),
        check_arg_or_none(args.edge_label, {"str", "Callable"}, {}),
        check_arg_or_none(args.edge_color, {"str", "Callable"}, {}),
        check_arg_or_none(args.edge_opacity, {"int", "float", "Callable"}, {}),
        check_arg_or_none(args.edge_size, {"int", "float", "Callable"}, {}),
        check_arg_or_none(args.edge_label_color, {"str", "Callable"}, {}),
        check_arg_or_none(args.edge_label_size, {"int", "float", "Callable"}, {}),
        check_arg_or_none(args.edge_hover, {"str", "Callable"}, {}),
        check_arg_or_none(args.edge_click, {"str", "Callable"}, {}) >>)

\* convert(data, graph_annotated, graph_directed, node_label, ..., edge_click)
convert(data, graph_annotated, graph_directed, args, ord) ==
    IF check_arg(data, {"list", "AtomSpace"}, {}) # "ok"
    THEN RaiseGraph(check_arg(data, {"list", "AtomSpace"}, {}))
    ELSE IF convert_checks(args) # "ok" THEN RaiseGraph(convert_checks(args))
    ELSE LET atoms == iterate(data, ord)
             with_nodes == add_nodes(new_graph(graph_directed), atoms,
                                     graph_annotated, args)
         IN  ReturnGraph(add_links(with_nodes, atoms, graph_annotated, args, ord))

\* the annotation arguments of convert, all left at None
DefaultArgs ==
    [node_label |-> PyNone, node_color |-> PyNone, node_opacity |-> PyNone,
     node_size |-> PyNone, node_shape |-> PyNone, node_border_color |-> PyNone,
     node_border_size |-> PyNone, node_label_color |-> PyNone,
     node_label_size |-> PyNone, node_hover |-> PyNone, node_click |-> PyNone,
     node_image |-> PyNone, node_properties |-> PyNone,
     edge_label |-> PyNone, edge_color |-> PyNone, edge_opacity |-> PyNone,
     edge_size |-> PyNone, edge_label_color |-> PyNone, edge_label_size |-> PyNone,
     edge_hover |-> PyNone, edge_click |-> PyNone]

\* ------------------------------------------------------ inspection.py
PyGraph(graph) ==
    [kind |-> IF graph.directed THEN "DiGraph" ELSE "Graph", val |-> graph]

\* mutant: a Link is counted as a Node
count_all_as_nodes(num, atom, count_details) ==
    [num EXCEPT !.nodes = @ + 1]

\* one pass of the loop "for atom in data" of inspect_atomspace over the
\* counts num_nodes, num_links and num_types
count(num, atom, count_details) ==
    LET key == type_name(atom)
        counted == IF is_node(atom) THEN [num EXCEPT !.nodes = @ + 1]
                   ELSE [num EXCEPT !.links = @ + 1]
    IN  IF ~count_details THEN counted
        ELSE IF key \in DOMAIN num.types
        THEN [counted EXCEPT !.types[key] = @ + 1]
        ELSE [counted EXCEPT !.types = @ @@ (key :> 1)]

RECURSIVE count_atoms(_, _, _)
count_atoms(num, atoms, count_details) ==
    IF atoms = <<>> THEN num
    ELSE count_atoms(count(num, Head(atoms), count_details), Tail(atoms), count_details)

inspect_atomspace(data, count_details, ord) ==
    LET num == count_atoms([nodes |-> 0, links |-> 0, types |-> <<>>],
                           iterate(data, ord), count_details)
    IN  IF count_details
        THEN [atoms |-> num.nodes + num.links, nodes |-> num.nodes,
              links |-> num.links, types |-> num.types]
        ELSE [atoms |-> num.nodes + num.links, nodes |-> num.nodes,
              links |-> num.links]

\* the element that a value is in a Python set: numbers that are equal are
\* one element, whatever their type
hashed(val) ==
    IF val.kind \in {"int", "float"} THEN [kind |-> "number", val |-> val.val] ELSE val

RECURSIVE add_items(_, _, _)
\* "for key, val in data.nodes[name].items()": val is added to the set of key
add_items(cnt, attr, keys) ==
    IF keys = <<>> THEN cnt
    ELSE LET key == Head(keys)
         IN  add_items(IF key \in DOMAIN cnt
                       THEN [cnt EXCEPT ![key] = @ \cup {hashed(attr[key])}]
                       ELSE cnt @@ (key :> {hashed(attr[key])}),
                       attr, Tail(keys))

RECURSIVE collect(_, _, _)
\* "for name in data.nodes" and "for n1, n2 in data.edges"
collect(cnt, attrs, names) ==
    IF names = <<>> THEN cnt
    ELSE collect(add_items(cnt, attrs[Head(names)], SetToSeq(DOMAIN attrs[Head(names)])),
                 attrs, Tail(names))

\* mutant: the nodes (edges) that carry the key are counted, not its values
count_properties_carriers(attrs) ==
    [key \in UNION {DOMAIN attrs[x] : x \in DOMAIN attrs} |->
        Cardinality({x \in DOMAIN attrs : key \in DOMAIN attrs[x]})]

\* node_cnt and edge_cnt: "node_cnt[key] = len(node_cnt[key])"
count_properties(attrs) ==
    LET cnt == collect(<<>>, attrs, SetToSeq(DOMAIN attrs))
    IN  [key \in DOMAIN cnt |-> Cardinality(cnt[key])]

inspect_graph(data, count_details) ==
    LET num_nodes == Cardinality(DOMAIN data.val.nodes)
        num_edges == Cardinality(DOMAIN data.val.edges)
    IN  IF count_details
        THEN [nodes |-> num_nodes, edges |-> num_edges,
              node_properties |-> count_properties(data.val.nodes),
              edge_properties |-> count_properties(data.val.edges)]
        ELSE [nodes |-> num_nodes, edges |-> num_edges]

RaiseStats(e) == [err |-> e, stats |-> <<>>]
ReturnStats(stats) == [err |-> "none", stats |-> stats]

\* inspect(data, count_details)
inspect(data, count_details, ord) ==
    IF check_arg(data, {"list", "AtomSpace", "Graph", "DiGraph"}, {}) # "ok"
    THEN RaiseStats(check_arg(data, {"list", "AtomSpace", "Graph", "DiGraph"}, {}))
    ELSE IF data.kind \in {"list", "AtomSpace"}
    THEN ReturnStats(inspect_atomspace(data, count_details, ord))
    ELSE ReturnStats(inspect_graph(data, count_details))

\* --------------------------------------------------------------- io.py
\* the file system: files[filepath] is the content of the file at filepath
isfile(fs, filepath) == filepath \in DOMAIN fs

\* str.endswith
endswith(s, suffix) ==
    /\ Len(s) >= Len(suffix)
    /\ SubSeq(s, Len(s) - Len(suffix) + 1, Len(s)) = suffix

\* a file of Atomese code that defines the Atoms of atoms
Atomese(atoms) == [kind |-> "scm", atoms |-> atoms]

\* a GML file of a graph
Gml(graph) == [kind |-> "gml", graph |-> graph]

\* the file at filepath is created or replaced
write(fs, filepath, content) == (filepath :> content) @@ fs

check_if_file_exists(fs, filepath) ==
    IF isfile(fs, filepath) THEN "FileExistsError" ELSE "ok"

LOAD_METHODS == {"basic", "primitive", "fast", "python"}
STORE_METHODS == {"basic", "file-storage-node"}

\* the Atoms that evaluating the Atomese code of a file adds to an AtomSpace
scheme_eval_load(space, content) == space \cup content.atoms

RaiseLoad(e) == [err |-> e, atomspaces |-> <<>>]
ReturnLoad(space) == [err |-> "none", atomspaces |-> <<space>>]

\* mutant: the file is not looked for
load_without_isfile(fs, filepath, method) ==
    IF check_arg(method, {"str"}, LOAD_METHODS) # "ok"
    THEN RaiseLoad(check_arg(method, {"str"}, LOAD_METHODS))
    ELSE IF isfile(fs, filepath.val)
    THEN ReturnLoad(scheme_eval_load({}, fs[filepath.val]))
    ELSE ReturnLoad({})

\* load(filepath, method): the exception raised or the AtomSpace returned
load(fs, filepath, method) ==
    IF check_arg(filepath, {"str"}, {}) # "ok"
    THEN RaiseLoad(check_arg(filepath, {"str"}, {}))
    ELSE IF check_arg(method, {"str"}, LOAD_METHODS) # "ok"
    THEN RaiseLoad(check_arg(method, {"str"}, LOAD_METHODS))
    ELSE IF ~isfile(fs, filepath.val)
    THEN RaiseLoad("FileNotFoundError")
    ELSE LET created == {}
         IN  CASE method.val = "basic" ->
                    ReturnLoad(scheme_eval_load(created, fs[filepath.val]))
               [] method.val = "primitive" ->
                    ReturnLoad(scheme_eval_load(created, fs[filepath.val]))
               [] method.val = "fast" ->
                    ReturnLoad(scheme_eval_load(created, fs[filepath.val]))
               [] method.val = "python" ->
                    ReturnLoad(scheme_eval_load(created, fs[filepath.val]))

RaiseStore(e, space, fs) == [err |-> e, atomspace |-> space, files |-> fs]
ReturnStore(space, fs) == [err |-> "none", atomspace |-> space, files |-> fs]

\* mutant: the file is looked for whatever overwrite says
store_never_overwrites(space, fs, filepath, method, overwrite) ==
    IF check_arg(method, {"str"}, STORE_METHODS) # "ok"
    THEN RaiseStore(check_arg(method, {"str"}, STORE_METHODS), space, fs)
    ELSE IF check_if_file_exists(fs, filepath.val) # "ok"
    THEN RaiseStore(check_if_file_exists(fs, filepath.val), space, fs)
    ELSE ReturnStore(space, write(fs, filepath.val, Atomese(space)))

\* mutant: the method file-storage-node is carried out as basic
store_all_as_basic(space, fs, filepath, method, overwrite) ==
    IF check_arg(method, {"str"}, STORE_METHODS) # "ok"
    THEN RaiseStore(check_arg(method, {"str"}, STORE_METHODS), space, fs)
    ELSE IF ~overwrite /\ check_if_file_exists(fs, filepath.val) # "ok"
    THEN RaiseStore(check_if_file_exists(fs, filepath.val), space, fs)
    ELSE ReturnStore(space, write(fs, filepath.val, Atomese(space)))

\* store(atomspace, filepath, method, verbose, overwrite): the exception
\* raised, the AtomSpace and the file system afterwards
store(space, fs, filepath, method, overwrite) ==
    IF check_arg(filepath, {"str"}, {}) # "ok"
    THEN RaiseStore(check_arg(filepath, {"str"}, {}), space, fs)
    ELSE IF check_arg(method, {"str"}, STORE_METHODS) # "ok"
    THEN RaiseStore(check_arg(method, {"str"}, STORE_METHODS), space, fs)
    ELSE IF ~overwrite /\ check_if_file_exists(fs, filepath.val) # "ok"
    THEN RaiseStore(check_if_file_exists(fs, filepath.val), space, fs)
    ELSE IF method.val = "basic"
    THEN ReturnStore(space, write(fs, filepath.val, Atomese(space)))
    ELSE LET fsn == Node(types.FileStorageNode, filepath.val)
         IN  ReturnStore(space \cup {fsn},
                         write(fs, filepath.val, Atomese(space \cup {fsn})))

known_formats ==
    {<<"g","m","l">>, <<"g","m","l",".","g","z">>, <<"g","m","l",".","b","z","2">>}

RaiseExport(e, fs) == [err |-> e, files |-> fs]
ReturnExport(fs) == [err |-> "none", files |-> fs]

\* mutant: the format is looked at after the file is looked for
export_exists_first(fs, graph, filepath, overwrite) ==
    IF ~overwrite /\ check_if_file_exists(fs, filepath.val) # "ok"
    THEN RaiseExport(check_if_file_exists(fs, filepath.val), fs)
    ELSE IF ~\E x \in known_formats : endswith(filepath.val, x)
    THEN RaiseExport("ValueError", fs)
    ELSE ReturnExport(write(fs, filepath.val, Gml(graph.val)))

\* export(graph, filepath, overwrite)
export(fs, graph, filepath, overwrite) ==
    IF check_arg(graph, {"Graph", "DiGraph"}, {}) # "ok"
    THEN RaiseExport(check_arg(graph, {"Graph", "DiGraph"}, {}), fs)
    ELSE IF check_arg(filepath, {"str"}, {}) # "ok"
    THEN RaiseExport(check_arg(filepath, {"str"}, {}), fs)
    ELSE IF ~\E x \in known_formats : endswith(filepath.val, x)
    THEN RaiseExport("ValueError", fs)
    ELSE IF ~overwrite /\ check_if_file_exists(fs, filepath.val) # "ok"
    THEN RaiseExport(check_if_file_exists(fs, filepath.val), fs)
    ELSE ReturnExport(write(fs, filepath.val, Gml(graph.val)))

\* -------------------------------------------------------- layouting.py
GRAPHVIZ_METHODS == {"dot", "neato", "twopi", "circo", "fdp", "sfdp"}
NETWORKX_METHODS ==
    {"bipartite", "circular", "kamada_kawai", "planar", "random", "shell", "spring",
     "spectral", "spiral"}
LAYOUT_METHODS == GRAPHVIZ_METHODS \cup NETWORKX_METHODS

Min(S) == CHOOSE x \in S : \A y \in S : x <= y
Max(S) == CHOOSE x \in S : \A y \in S : x >= y

calc_mirror(mirror_x, mirror_y) ==
    <<IF mirror_x THEN -1 ELSE 1, IF mirror_y THEN -1 ELSE 1>>

\* Python's float: a coordinate is a binary number of Precision significant
\* bits (53 in the build); the model counts in halves of the unit of its
\* positions, which are even, so that the half of a difference is a number of
\* the model, and rounds every result to the nearest number it can hold, to
\* the even one of two nearest
Precision == 3

RECURSIVE ulp(_)
ulp(a) == IF a < 2^Precision THEN 1 ELSE 2 * ulp(a \div 2)

round_abs(a) ==
    LET u == ulp(a)
        q == a \div u
        r == a % u
    IN  IF 2 * r < u THEN q * u
        ELSE IF 2 * r > u THEN (q + 1) * u
        ELSE IF q % 2 = 0 THEN q * u ELSE (q + 1) * u

round(v) == IF v < 0 THEN -round_abs(-v) ELSE round_abs(v)

float_add(a, b) == round(a + b)
float_sub(a, b) == round(a - b)
float_mul(a, b) == round(a * b)
float_half(a) == a \div 2

\* mutant: the shift is the negated smallest coordinate
calc_shift_to_min(pos, center_x, center_y) ==
    LET xs == {pos[n][1] : n \in DOMAIN pos}
        ys == {pos[n][2] : n \in DOMAIN pos}
    IN  <<IF center_x /\ xs # {} THEN -Min(xs) ELSE 0,
          IF center_y /\ ys # {} THEN -Min(ys) ELSE 0>>

\* calc_shift(layout, center_x, center_y)
calc_shift(pos, center_x, center_y) ==
    LET xs == {pos[n][1] : n \in DOMAIN pos}
        ys == {pos[n][2] : n \in DOMAIN pos}
    IN  <<IF center_x /\ xs # {}
          THEN float_sub(-Min(xs), float_half(float_sub(Max(xs), Min(xs)))) ELSE 0,
          IF center_y /\ ys # {}
          THEN float_sub(-Min(ys), float_half(float_sub(Max(ys), Min(ys)))) ELSE 0>>

\* annotate(data, pos, mirror_x, mirror_y, center_x, center_y, scale_x, scale_y)
annotate(graph, pos, mirror_x, mirror_y, center_x, center_y, scale_x, scale_y) ==
    LET sign == calc_mirror(mirror_x, mirror_y)
        shift == calc_shift(pos, center_x, center_y)
    IN  [graph EXCEPT !.nodes =
            [uid \in DOMAIN graph.nodes |->
                IF uid \in DOMAIN pos
                THEN update(graph.nodes[uid],
                            [x |-> PyFloat(float_mul(float_mul(float_add(pos[uid][1], shift[1]), scale_x), sign[1])),
                             y |-> PyFloat(float_mul(float_mul(float_add(pos[uid][2], shift[2]), scale_y), sign[2]))])
                ELSE graph.nodes[uid]]]

\* calc_layout(graph, method, kwargs): the positions that Graphviz or
\* NetworkX computes are not decided here; the nodes are put in a row
calc_layout(graph, method) ==
    LET names == SetToSeq(DOMAIN graph.nodes)
    IN  [uid \in DOMAIN graph.nodes |->
            <<4 * (CHOOSE i \in DOMAIN names : names[i] = uid), 0>>]

RaiseLayout(e) == [err |-> e, graph |-> new_graph(TRUE)]

\* layout(data, method, scale_x, scale_y, mirror_x, mirror_y, center_x,
\* center_y); pos are the positions that calc_layout returns for the graph
layout_with(data, method, scale_x, scale_y, mirror_x, mirror_y, center_x, center_y, ord, pos) ==
    LET checked == first_error(<<
            check_arg(data, {"Graph", "DiGraph", "AtomSpace", "list"}, {}),
            check_arg(method, {"str"}, LAYOUT_METHODS),
            check_arg(scale_x, {"int", "float"}, {}),
            check_arg(scale_y, {"int", "float"}, {}),
            check_arg(mirror_x, {"bool"}, {}),
            check_arg(mirror_y, {"bool"}, {}),
            check_arg(center_x, {"bool"}, {}),
            check_arg(center_y, {"bool"}, {}) >>)
        graph == IF data.kind \in {"AtomSpace", "list"}
                 THEN convert(data, TRUE, TRUE, DefaultArgs, ord).graph
                 ELSE data.val
    IN  IF checked # "ok" THEN RaiseLayout(checked)
        ELSE [err |-> "none",
              graph |-> annotate(graph, pos, mirror_x.val, mirror_y.val,
                                 center_x.val, center_y.val, scale_x.val, scale_y.val)]

\* layout(data, method) of a graph, the other arguments left at their defaults
layout(data, method) ==
    IF check_arg(data, {"Graph", "DiGraph", "AtomSpace", "list"}, {}) # "ok"
    THEN [err |-> check_arg(data, {"Graph", "DiGraph", "AtomSpace", "list"}, {}),
          graph |-> new_graph(TRUE)]
    ELSE IF check_arg(method, {"str"}, LAYOUT_METHODS) # "ok"
    THEN [err |-> check_arg(method, {"str"}, LAYOUT_METHODS), graph |-> new_graph(TRUE)]
    ELSE [err |-> "none",
          graph |-> annotate(data.val, calc_layout(data.val, method.val),
                             FALSE, TRUE, TRUE, TRUE, 1, 1)]

\* ---------------------------------------------------------- plotting.py
\* _gv.d3, _gv.vis, _gv.three: the figure that the backend makes of the graph
\* and the keyword arguments it is given
Figure(graph, backend, kwargs) == [graph |-> graph, backend |-> backend, kwargs |-> kwargs]

\* kwargs[key] = kwargs.get(key, default)
setdefault(kwargs, key, default) ==
    IF key \in DOMAIN kwargs THEN kwargs ELSE kwargs @@ (key :> default)

\* the layout arguments of plot at their defaults
DefaultLayout ==
    [scale_x |-> PyFloat(1), scale_y |-> PyFloat(1),
     mirror_x |-> PyBool(FALSE), mirror_y |-> PyBool(TRUE),
     center_x |-> PyBool(TRUE), center_y |-> PyBool(TRUE)]

\* the filter arguments of plot at their defaults
DefaultFilter == [target |-> PyNone, context |-> PyStr("atom"), mode |-> PyStr("include")]

\* the graph arguments of plot at their defaults, with the annotations conv
GraphArgs(conv) == [annotated |-> TRUE, directed |-> TRUE, args |-> conv]

RaisePlot(e, steps) == [err |-> e, steps |-> steps, fig |-> PyNone]
ReturnPlot(steps, fig) == [err |-> "none", steps |-> steps, fig |-> fig]

\* "Argument processing" of plot: the exception raised, or "ok"
plot_checks(data, backend, layout_method, lay, filt) ==
    first_error(<<
        check_arg(data, {"AtomSpace", "list", "Graph", "DiGraph"}, {}),
        check_arg(backend, {"str"}, {"d3", "vis", "three"}),
        check_arg_or_none(layout_method, {"str"}, LAYOUT_METHODS),
        check_arg(lay.scale_x, {"int", "float"}, {}),
        check_arg(lay.scale_x, {"int", "float"}, {}),
        check_arg(lay.mirror_x, {"bool"}, {}),
        check_arg(lay.mirror_y, {"bool"}, {}),
        check_arg(lay.center_x, {"bool"}, {}),
        check_arg(lay.center_y, {"bool"}, {}),
        check_arg_or_none(filt.target, {"str", "int", "list", "Callable", "Atom"}, {}),
        check_arg(filt.context, {"str", "tuple"}, {}),
        check_arg(filt.mode, {"str"}, {"include", "exclude"}) >>)

\* "Setting some defaults for plotting"
plot_kwargs(kwargs, edge_label) ==
    setdefault(setdefault(setdefault(kwargs,
        "node_label_data_source", PyStr("label")),
        "edge_label_data_source", PyStr("label")),
        "show_edge_label", PyBool(edge_label.kind # "None"))

\* mutant: a graph is laid out as well
plot_lays_out_graphs(data, backend, layout_method, lay, filt, gr, kwargs, ord) ==
    LET checked == plot_checks(data, backend, layout_method, lay, filt)
        kw == plot_kwargs(kwargs, gr.args.edge_label)
        filtered == filter(data, filt.target, filt.context, filt.mode, ord)
        atoms == IF filt.target.kind = "None" THEN data ELSE PyList(filtered.atoms)
        steps1 == IF filt.target.kind = "None" THEN <<>> ELSE <<"filter">>
        isgraph == data.kind \in {"Graph", "DiGraph"}
        converted == IF isgraph THEN ReturnGraph(data.val)
                     ELSE convert(atoms, gr.annotated, gr.directed, gr.args, ord)
        steps2 == IF isgraph THEN <<>> ELSE Append(steps1, "convert")
        laid == layout_with(PyGraph(converted.graph), layout_method,
                            lay.scale_x, lay.scale_y, lay.mirror_x, lay.mirror_y,
                            lay.center_x, lay.center_y, ord,
                            calc_layout(converted.graph, layout_method.val))
        steps3 == IF layout_method.kind = "None" THEN steps2 ELSE Append(steps2, "layout")
        graph == IF layout_method.kind = "None" THEN converted.graph ELSE laid.graph
    IN  IF checked # "ok" THEN RaisePlot(checked, <<>>)
        ELSE IF ~isgraph /\ filt.target.kind # "None" /\ filtered.err # "none"
        THEN RaisePlot(filtered.err, steps1)
        ELSE IF converted.err # "none" THEN RaisePlot(converted.err, steps2)
        ELSE IF layout_method.kind # "None" /\ laid.err # "none"
        THEN RaisePlot(laid.err, steps3)
        ELSE ReturnPlot(Append(steps3, "backend"), Figure(graph, backend.val, kw))

\* plot(data, backend, layout_method, layout_*, filter_*, graph_*, node_*,
\* edge_*, **kwargs): the steps that ran, and the figure or the exception
plot(data, backend, layout_method, lay, filt, gr, kwargs, ord) ==
    LET checked == plot_checks(data, backend, layout_method, lay, filt)
        kw == plot_kwargs(kwargs, gr.args.edge_label)
        filtered == filter(data, filt.target, filt.context, filt.mode, ord)
        atoms == IF filt.target.kind = "None" THEN data ELSE PyList(filtered.atoms)
        steps1 == IF filt.target.kind = "None" THEN <<>> ELSE <<"filter">>
        converted == convert(atoms, gr.annotated, gr.directed, gr.args, ord)
        steps2 == Append(steps1, "convert")
        laid == layout_with(PyGraph(converted.graph), layout_method,
                            lay.scale_x, lay.scale_y, lay.mirror_x, lay.mirror_y,
                            lay.center_x, lay.center_y, ord,
                            calc_layout(converted.graph, layout_method.val))
        steps3 == IF layout_method.kind = "None" THEN steps2 ELSE Append(steps2, "layout")
        graph == IF layout_method.kind = "None" THEN converted.graph ELSE laid.graph
    IN  IF checked # "ok" THEN RaisePlot(checked, <<>>)
        ELSE IF data.kind \in {"Graph", "DiGraph"}
        THEN ReturnPlot(<<"backend">>, Figure(data.val, backend.val, kw))
        ELSE IF filt.target.kind # "None" /\ filtered.err # "none"
        THEN RaisePlot(filtered.err, steps1)
        ELSE IF converted.err # "none" THEN RaisePlot(converted.err, steps2)
        ELSE IF layout_method.kind # "None" /\ laid.err # "none"
        THEN RaisePlot(laid.err, steps3)
        ELSE ReturnPlot(Append(steps3, "backend"), Figure(graph, backend.val, kw))

\* -------------------------------------------------------------- cli.py
\* the exit status of the process: 0, 1 after an exception that nothing
\* catches, 2 after argparse has reported an error
Exit(status, steps, fs) == [status |-> status, steps |-> steps, files |-> fs]

exists(fs, filepath) == filepath \in DOMAIN fs

validate_source(fs, filepath) ==
    IF ~exists(fs, filepath) THEN "ArgumentTypeError" ELSE "ok"

cli_known_formats ==
    {<<".","h","t","m","l">>, <<".","j","p","g">>, <<".","p","n","g">>,
     <<".","s","v","g">>, <<".","g","m","l">>, <<".","g","m","l",".","g","z">>,
     <<".","g","m","l",".","b","z","2">>}

validate_target(filepath) ==
    IF ~\E x \in cli_known_formats : endswith(filepath, x)
    THEN "ArgumentTypeError" ELSE "ok"

\* fig.export_html, fig.export_jpg, fig.export_png, fig.export_svg: the file
\* of the figure is written at target
export_figure(fs, fig, format, target) ==
    write(fs, target, [kind |-> format, fig |-> fig])

\* plot_graph: the steps done and the files afterwards
plot_graph(fs, graph, target, backend, kwargs, steps) ==
    With(plot(PyGraph(graph), backend, PyNone, DefaultLayout, DefaultFilter,
              GraphArgs(DefaultArgs), kwargs, <<>>), LAMBDA plotted :
    LET fig == plotted.fig
        done == Append(steps, "plot")
    IN  IF plotted.err # "none" THEN Exit(1, done, fs)
        ELSE IF target.kind = "None" THEN Exit(0, Append(done, "display"), fs)
        ELSE IF endswith(target.val, <<"h","t","m","l">>)
        THEN Exit(0, Append(done, "export_html"),
                  export_figure(fs, fig, "html", target.val))
        ELSE IF endswith(target.val, <<"j","p","g">>)
        THEN Exit(0, Append(done, "export_jpg"),
                  export_figure(fs, fig, "jpg", target.val))
        ELSE IF endswith(target.val, <<"p","n","g">>)
        THEN Exit(0, Append(done, "export_png"),
                  export_figure(fs, fig, "png", target.val))
        ELSE IF endswith(target.val, <<"s","v","g">>)
        THEN Exit(0, Append(done, "export_svg"),
                  export_figure(fs, fig, "svg", target.val))
        ELSE Exit(0, done, fs))

\* export_graph
export_graph(fs, graph, target, overwrite, steps) ==
    LET exported == export(fs, PyGraph(graph), target, overwrite)
    IN  Exit(IF exported.err = "none" THEN 0 ELSE 1, Append(steps, "export"),
             exported.files)

\* mutant: a GML target is plotted as well
output_always_plots(fs, graph, target, overwrite, backend, kwargs, steps) ==
    IF target.kind = "None"
       \/ \E ext \in {<<"h","t","m","l">>, <<"j","p","g">>, <<"p","n","g">>,
                      <<"s","v","g">>} : endswith(target.val, ext)
    THEN plot_graph(fs, graph, target, backend, kwargs, steps)
    ELSE export_graph(fs, graph, target, overwrite, Append(steps, "plot"))

\* "Plot or export" of perform_it
output(fs, graph, target, overwrite, backend, kwargs, steps) ==
    IF target.kind = "None"
       \/ \E ext \in {<<"h","t","m","l">>, <<"j","p","g">>, <<"p","n","g">>,
                      <<"s","v","g">>} : endswith(target.val, ext)
    THEN plot_graph(fs, graph, target, backend, kwargs, steps)
    ELSE export_graph(fs, graph, target, overwrite, steps)

\* mutant: the output is made of the graph that convert returned
perform_it_unlaid(fs, source, target, overwrite, backend, layout_method, filt_args, kwargs, o) ==
    With(load(fs, source, PyStr("primitive")), LAMBDA loaded :
    IF loaded.err # "none" THEN Exit(1, <<"load">>, fs)
    ELSE
    With(Enumerate(loaded.atomspaces[1], o), LAMBDA ord :
    With(filter(PyAtomSpace(loaded.atomspaces[1]), filt_args[1], filt_args[2],
                filt_args[3], ord), LAMBDA filtered :
    LET atoms == IF filt_args[1].kind = "None" THEN PyAtomSpace(loaded.atomspaces[1])
                 ELSE PyList(filtered.atoms)
        steps1 == IF filt_args[1].kind = "None" THEN <<"load">>
                  ELSE <<"load", "filter">>
        steps2 == Append(steps1, "convert")
        steps3 == IF layout_method.kind = "None" THEN steps2
                  ELSE Append(steps2, "layout")
    IN  IF filt_args[1].kind # "None" /\ filtered.err # "none" THEN Exit(1, steps1, fs)
        ELSE
        With(convert(atoms, TRUE, TRUE, DefaultArgs, ord), LAMBDA converted :
        IF converted.err # "none" THEN Exit(1, steps2, fs)
        ELSE
        With(layout(PyGraph(converted.graph), layout_method), LAMBDA laid :
        IF layout_method.kind # "None" /\ laid.err # "none"
        THEN Exit(1, steps3, fs)
        ELSE output(fs, converted.graph,
                    target, overwrite, backend, kwargs, steps3))))))

\* perform_it(source, target, overwrite, verbose, backend, layout, ...)
perform_it(fs, source, target, overwrite, backend, layout_method, filt_args, kwargs, o) ==
    With(load(fs, source, PyStr("primitive")), LAMBDA loaded :
    IF loaded.err # "none" THEN Exit(1, <<"load">>, fs)
    ELSE
    With(Enumerate(loaded.atomspaces[1], o), LAMBDA ord :
    With(filter(PyAtomSpace(loaded.atomspaces[1]), filt_args[1], filt_args[2],
                filt_args[3], ord), LAMBDA filtered :
    LET atoms == IF filt_args[1].kind = "None" THEN PyAtomSpace(loaded.atomspaces[1])
                 ELSE PyList(filtered.atoms)
        steps1 == IF filt_args[1].kind = "None" THEN <<"load">>
                  ELSE <<"load", "filter">>
        steps2 == Append(steps1, "convert")
        steps3 == IF layout_method.kind = "None" THEN steps2
                  ELSE Append(steps2, "layout")
    IN  IF filt_args[1].kind # "None" /\ filtered.err # "none" THEN Exit(1, steps1, fs)
        ELSE
        With(convert(atoms, TRUE, TRUE, DefaultArgs, ord), LAMBDA converted :
        IF converted.err # "none" THEN Exit(1, steps2, fs)
        ELSE
        With(layout(PyGraph(converted.graph), layout_method), LAMBDA laid :
        IF layout_method.kind # "None" /\ laid.err # "none"
        THEN Exit(1, steps3, fs)
        ELSE output(fs, IF layout_method.kind = "None" THEN converted.graph ELSE laid.graph,
                    target, overwrite, backend, kwargs, steps3))))))

\* try_eval(expr): a word that is no Python expression stays a str
try_eval(expr) == IF expr.kind = "None" THEN PyNone ELSE PyStr(expr.val)

\* value.split('='): an entry of --kwargs is the sequence of its words and
\* of the signs "=" between them; the parts are the words, "" where a sign has
\* no word before or after it
RECURSIVE split(_)
split(value) ==
    IF value = <<>> THEN <<"">>
    ELSE IF Head(value) = "="
    THEN <<"">> \o split(Tail(value))
    ELSE IF Len(value) = 1 THEN <<Head(value)>>
    ELSE <<Head(value)>> \o split(Tail(Tail(value)))

\* ast.literal_eval of one word: the number, truth value or str that it is
\* the literal of; a word that is no literal raises
literal_word(w) ==
    CASE w \in {"0", "1", "2", "4"} ->
           PyInt(CASE w = "0" -> 0 [] w = "1" -> 1 [] w = "2" -> 2 [] w = "4" -> 4)
      [] w = "-1" -> PyInt(-1)
      [] w = "False" -> PyBool(FALSE)
      [] w \in {"'in'", "'out'", "'both'", "'in-tree'", "'nonsense'", "'id'", "'b'"} ->
           PyStr(CASE w = "'in'" -> "in" [] w = "'out'" -> "out" [] w = "'both'" -> "both"
                   [] w = "'in-tree'" -> "in-tree" [] w = "'nonsense'" -> "nonsense"
                   [] w = "'id'" -> "id" [] w = "'b'" -> "b")
      [] OTHER -> [kind |-> "raise"]

\* ast.literal_eval(text): a text is the sequence of its words, brackets and
\* commas; one word is the value it is the literal of, words with commas
\* between round brackets are a tuple, anything else raises
literal_eval(text) ==
    IF Len(text) = 1 THEN literal_word(text[1])
    ELSE IF Len(text) >= 2 /\ text[1] = "(" /\ text[Len(text)] = ")"
    THEN LET inner == SubSeq(text, 2, Len(text) - 1)
             vals == [k \in 1..((Len(inner) + 1) \div 2) |-> literal_word(inner[2 * k - 1])]
         IN  IF \E i \in DOMAIN inner : (inner[i] = ",") # (i % 2 = 0)
             THEN [kind |-> "raise"]
             ELSE IF \E k \in DOMAIN vals : vals[k].kind = "raise"
             THEN [kind |-> "raise"]
             ELSE IF Len(inner) = 1 THEN vals[1]
             ELSE PyTuple(vals)
    ELSE [kind |-> "raise"]

\* validate_context(context): the context that filter is given, or the
\* ArgumentTypeError
validate_context(text) ==
    IF Len(text) = 1 /\ text[1] \in FILTER_CONTEXTS
    THEN [err |-> "none", context |-> PyStr(text[1])]
    ELSE LET context == literal_eval(text)
         IN  IF /\ context.kind = "tuple"
                /\ Len(context.val) >= 1
                /\ context.val[1].kind = "str"
                /\ context.val[1].val \in {"in", "out", "both"}
                /\ Len(context.val) >= 2
                /\ context.val[2].kind = "int"
                /\ context.val[2].val >= 0
             THEN [err |-> "none", context |-> context]
             ELSE [err |-> "ArgumentTypeError", context |-> PyNone]

\* mutant: the value is kept as it was written
kwargs_entry_unevaluated(kwargs, value) ==
    IF Len(split(value)) # 2 THEN [err |-> "ValueError", kwargs |-> kwargs]
    ELSE [err |-> "none",
          kwargs |-> update(kwargs, split(value)[1] :> PyStr(split(value)[2]))]

\* one pass of the loop of KwargsParser.__call__
kwargs_entry(kwargs, value) ==
    IF Len(split(value)) # 2 THEN [err |-> "ValueError", kwargs |-> kwargs]
    ELSE LET key == split(value)[1]
             val == IF literal_eval(<<split(value)[2]>>).kind = "raise"
                    THEN PyStr(split(value)[2])
                    ELSE literal_eval(<<split(value)[2]>>)
         IN  [err |-> "none", kwargs |-> update(kwargs, key :> val)]

RECURSIVE kwargs_entries(_, _)
kwargs_entries(kwargs, values) ==
    IF values = <<>> THEN [err |-> "none", kwargs |-> kwargs]
    ELSE IF kwargs_entry(kwargs, Head(values)).err # "none"
    THEN kwargs_entry(kwargs, Head(values))
    ELSE kwargs_entries(kwargs_entry(kwargs, Head(values)).kwargs, Tail(values))

\* KwargsParser.__call__(parser, namespace, values): the dictionary, or the
\* exception raised
KwargsParser(values) ==
    LET parsed == kwargs_entries(<<>>, values)
    IN  IF parsed.err # "none" THEN parsed
        ELSE IF DOMAIN parsed.kwargs = {} THEN [err |-> "ValueError", kwargs |-> <<>>]
        ELSE parsed

\* parser.parse_args(): the error of the first argument that is not
\* accepted, or "ok"
parse_args(fs, args) ==
    IF validate_source(fs, args.i.val) # "ok" THEN "ArgumentTypeError"
    ELSE IF args.o.kind # "None" /\ validate_target(args.o.val) # "ok"
    THEN "ArgumentTypeError"
    ELSE IF validate_context(args.fc).err # "none" THEN "ArgumentTypeError"
    ELSE IF args.kwargs.kind # "None" /\ KwargsParser(args.kwargs.val).err # "none"
    THEN KwargsParser(args.kwargs.val).err
    ELSE "ok"

\* kwargs = dict() if args.kwargs is None else args.kwargs
kwargs_of(args) ==
    IF args.kwargs.kind = "None" THEN <<>> ELSE KwargsParser(args.kwargs.val).kwargs

\* mutant: the output path is not looked for
parse_without_check(fs, args, o) ==
    IF parse_args(fs, args) = "ArgumentTypeError" THEN Exit(2, <<>>, fs)
    ELSE IF parse_args(fs, args) # "ok" THEN Exit(1, <<>>, fs)
    ELSE perform_it(fs, args.i, args.o, TRUE, args.b, args.l,
                    <<try_eval(args.ft), validate_context(args.fc).context, args.fm>>, kwargs_of(args), o)

\* parse(): the command line is parsed and the actions it asks for are done
parse(fs, args, o) ==
    IF parse_args(fs, args) = "ArgumentTypeError" THEN Exit(2, <<>>, fs)
    ELSE IF parse_args(fs, args) # "ok" THEN Exit(1, <<>>, fs)
    ELSE IF ~args.force /\ args.o.kind # "None" /\ exists(fs, args.o.val)
    THEN Exit(1, <<>>, fs)
    ELSE perform_it(fs, args.i, args.o, args.force, args.b, args.l,
                    <<try_eval(args.ft), validate_context(args.fc).context, args.fm>>, kwargs_of(args), o)

\* ------------------------------------------------------------ inputs
NodeNames == {<<"x">>, <<"A","n","d","L","i","n","k">>}

\* the Links that can be added over the Atoms S: a NotLink of one Atom, an
\* AndLink of two
NewLinks(S) ==
    {Link(types.NotLink, <<a>>) : a \in S}
    \cup {Link(types.AndLink, <<a, b>>) : a \in S, b \in S}

\* the lists of Atoms a caller builds from the Atoms S
ListsOver(S) == {<<a>> : a \in S} \cup {<<a, a>> : a \in S}

StrIntEntries ==
    {PyStr(<<"X">>), PyStr(<<"a","n","d","l","i","n","k">>), PyInt(types.AndLink)}

Entries(S) == StrIntEntries \cup {PyAtom(a) : a \in S}

SimpleTargets(S) == Entries(S) \cup {PyCallable("is_link")}

ListTargets(S) ==
    {PyList(<<e>>) : e \in Entries(S)}
    \cup {PyList(<<e1, e2>>) : e1 \in {PyStr(<<"X">>), PyInt(types.AndLink)},
                               e2 \in Entries(S)}

Targets(S) == SimpleTargets(S) \cup ListTargets(S)

\* the sizes of a tuple context; a plain context runs with size 1
Sizes == {0, 2}

ExpandContexts ==
    {PyStr(c) : c \in FILTER_CONTEXTS \ {"atom"}}
    \cup {PyTuple(<<PyStr(c), PyInt(n)>>) : c \in {"in", "out", "both"}, n \in Sizes}

ValidContexts == {PyStr("atom")} \cup ExpandContexts

InvalidContexts ==
    {PyStr("nonsense"),
     PyTuple(<<PyStr("a"), PyInt(2)>>),
     PyTuple(<<PyStr("in"), PyInt(-1)>>),
     PyTuple(<<PyStr("in"), PyStr("b")>>),
     PyTuple(<<PyStr("in-tree"), PyInt(1)>>),
     PyTuple(<<PyStr("in"), PyInt(1), PyInt(1)>>)}

Modes == {PyStr("include"), PyStr("exclude")}

\* ------------------------------------------------------ state machine
NoCall == [op |-> "none"]

Init ==
    /\ atomspace = {}
    /\ input = [kind |-> "AtomSpace"]
    /\ call = NoCall
    /\ result = Return(<<>>)
    /\ files = <<>>

\* atomspace.add_node / add_link: an Atom that is already held is not added again
AddAtom(atom) ==
    /\ atom \notin atomspace
    /\ atomspace' = atomspace \cup {atom}
    /\ UNCHANGED <<input, call, result, files>>

AddNode ==
    /\ call.op = "none"
    /\ Cardinality(atomspace) < MaxAtoms
    /\ \E name \in NodeNames : AddAtom(Node(types.PredicateNode, name))

AddLink ==
    /\ call.op = "none"
    /\ Cardinality(atomspace) < MaxAtoms
    /\ \E atom \in NewLinks(atomspace) : AddAtom(atom)

\* the caller passes the AtomSpace itself as data
UseAtomSpace ==
    /\ call.op = "none"
    /\ input.kind # "AtomSpace"
    /\ input' = [kind |-> "AtomSpace"]
    /\ UNCHANGED <<atomspace, call, result, files>>

\* the caller passes a list of Atoms as data
UseList ==
    /\ call.op = "none"
    /\ \E l \in ListsOver(atomspace) :
        /\ input' = [kind |-> "list", val |-> l, chained |-> FALSE]
        /\ UNCHANGED <<atomspace, call, result, files>>

\* chaining: the output of a filter application is the input of the next one
UseResult ==
    /\ call.op = "filter"
    /\ result.err = "none"
    /\ input' = [kind |-> "list", val |-> result.atoms, chained |-> TRUE]
    /\ call' = NoCall
    /\ result' = Return(<<>>)
    /\ UNCHANGED <<atomspace, files>>

Chained == input.kind = "list" /\ input.chained

\* the argument data of a call: the AtomSpace, or the list of Atoms
Data ==
    CASE input.kind = "AtomSpace" -> PyAtomSpace(atomspace)
      [] input.kind = "list" -> PyList(input.val)
      [] input.kind = "graph" -> PyGraph(input.val)

\* a call of filter with a target of T, a context of C and a mode of M
FilterCall(T, C, M) ==
    /\ call.op = "none"
    /\ \E target \in T, context \in C, mode \in M, o \in Orders :
        /\ call' = [op |-> "filter", target |-> target, context |-> context,
                    mode |-> mode, order |-> o]
        /\ result' = filter(Data, target, context, mode, Enumerate(atomspace, o))
        /\ UNCHANGED <<atomspace, input, files>>

Filter == FilterCall(Targets(atomspace), ValidContexts \cup InvalidContexts, Modes)

\* filter with the default context 'atom' and each kind of target
FilterAtom == FilterCall(Targets(atomspace), {PyStr("atom")}, Modes)

\* filter with a context that expands the selection
FilterContext == FilterCall(SimpleTargets(atomspace), ExpandContexts, Modes)

\* filter with a context it does not accept
FilterInvalid == FilterCall(SimpleTargets(atomspace), InvalidContexts, Modes)

\* the two steps of a chain: include with a context, then exclude by Atom
FilterFirst ==
    /\ ~Chained
    /\ FilterCall(SimpleTargets(atomspace), ValidContexts, {PyStr("include")})

FilterSecond ==
    /\ Chained
    /\ FilterCall(Targets(atomspace), {PyStr("atom")}, {PyStr("exclude")})

ConvertArgs ==
    {DefaultArgs,
     [DefaultArgs EXCEPT !.node_color = PyStr(<<"b","l","u","e">>),
                         !.edge_size = PyInt(2)],
     [DefaultArgs EXCEPT !.node_shape = PyCallable("f"),
                         !.node_properties = [kind |-> "dict",
                                              val |-> [mean |-> PyFloat(1)]],
                         !.edge_label = PyCallable("g")]}

RECURSIVE Arrangements(_)
\* the lists that hold each Atom of S once
Arrangements(S) ==
    IF S = {} THEN {<<>>}
    ELSE UNION {{<<a>> \o l : l \in Arrangements(S \ {a})} : a \in S}

\* the caller passes some Atoms of the AtomSpace, in some order, as data
UseSublist ==
    /\ call.op = "none"
    /\ \E S \in SUBSET atomspace : \E l \in Arrangements(S) :
        /\ input' = [kind |-> "list", val |-> l, chained |-> FALSE]
        /\ UNCHANGED <<atomspace, call, result, files>>

Convert ==
    /\ call.op = "none"
    /\ \E graph_annotated \in BOOLEAN, graph_directed \in BOOLEAN,
          args \in ConvertArgs, o \in Orders :
        /\ call' = [op |-> "convert", graph_annotated |-> graph_annotated,
                    graph_directed |-> graph_directed, args |-> args, order |-> o]
        /\ result' = convert(Data, graph_annotated, graph_directed, args,
                             Enumerate(atomspace, o))
        /\ UNCHANGED <<atomspace, input, files>>

\* the node_properties that callers pass, with the other annotations left at
\* their defaults or given as well
PropertiesArgs ==
    {[base EXCEPT !.node_properties = p] :
        base \in {DefaultArgs,
                  [DefaultArgs EXCEPT !.node_label = PyStr(<<"l">>),
                                      !.node_size = PyInt(2)]},
        p \in {PyCallable(f) : f \in {"raise", "none", "number", "for_nodes", "pairs"}}
              \cup {PyStr(<<"t", "v">>), PyStr(<<"x">>),
                    PyDict([label |-> PyStr(<<"d">>), mean |-> PyFloat(1)])}}

\* a call of convert with node_properties
ConvertProperties ==
    /\ call.op = "none"
    /\ input.kind # "graph"
    /\ \E graph_directed \in BOOLEAN, args \in PropertiesArgs, o \in Orders :
        /\ call' = [op |-> "convert", graph_annotated |-> TRUE,
                    graph_directed |-> graph_directed, args |-> args, order |-> o]
        /\ result' = convert(Data, TRUE, graph_directed, args, Enumerate(atomspace, o))
        /\ UNCHANGED <<atomspace, input, files>>

\* the caller passes the graph that convert has returned
UseGraph ==
    /\ call.op = "convert"
    /\ result.err = "none"
    /\ input' = [kind |-> "graph", val |-> result.graph]
    /\ call' = NoCall
    /\ result' = Return(<<>>)
    /\ UNCHANGED <<atomspace, files>>

Inspect ==
    /\ call.op = "none"
    /\ \E count_details \in BOOLEAN, o \in Orders :
        /\ call' = [op |-> "inspect", count_details |-> count_details, order |-> o]
        /\ result' = inspect(Data, count_details, Enumerate(atomspace, o))
        /\ UNCHANGED <<atomspace, input, files>>

\* convert is called with data that is an AtomSpace or a list
ConvertAtoms == input.kind # "graph" /\ Convert

\* the file paths that the calls are given
ScmPath == <<"a",".","s","c","m">>
NoPath == <<"n","o","n","e">>
StoreMethods == {PyStr(m) : m \in STORE_METHODS \cup {"nonsene"}}
LoadMethods == {PyStr(m) : m \in LOAD_METHODS \cup {"nonsene"}}

\* create(): the program goes on with a new, empty AtomSpace
Create ==
    /\ call.op = "none"
    /\ atomspace # {}
    /\ atomspace' = {}
    /\ input' = [kind |-> "AtomSpace"]
    /\ UNCHANGED <<call, result, files>>

\* a call of store with a filepath of P, a method of M and an overwrite of O
StoreCallWith(P, M, O) ==
    /\ call.op = "none"
    /\ \E filepath \in P, method \in M, overwrite \in O :
        LET stored == store(atomspace, files, PyStr(filepath), method, overwrite)
        IN  /\ call' = [op |-> "store", filepath |-> filepath, method |-> method,
                        overwrite |-> overwrite]
            /\ result' = [err |-> stored.err]
            /\ atomspace' = stored.atomspace
            /\ files' = stored.files
            /\ UNCHANGED input

StoreCall(P) == StoreCallWith(P, StoreMethods, BOOLEAN)

\* mv.store(atomspace, source): method and overwrite are left at their defaults
StoreDefault == StoreCallWith({ScmPath}, {PyStr("basic")}, {FALSE})

Store == StoreCall({ScmPath})

\* a call of load; a file at filepath is, as load expects, one of Atomese code
Load ==
    /\ call.op = "none"
    /\ \E filepath \in {ScmPath, NoPath}, method \in LoadMethods :
        /\ isfile(files, filepath) => files[filepath].kind = "scm"
        /\ call' = [op |-> "load", filepath |-> filepath, method |-> method]
        /\ result' = load(files, PyStr(filepath), method)
        /\ UNCHANGED <<atomspace, input, files>>

\* the call has returned or raised, and the program goes on
GoOn ==
    /\ call.op \in {"store", "load", "export", "cli", "plot"}
    /\ call' = NoCall
    /\ result' = Return(<<>>)
    /\ UNCHANGED <<atomspace, input, files>>

\* the file paths that export is given
GmlPath == <<"a",".","g","m","l">>
GzPath == <<"a",".","g","m","l",".","g","z">>
Bz2Path == <<"a",".","g","m","l",".","b","z","2">>
NonsPath == <<"a",".","n","o","n","s">>
ExportPaths == {GmlPath, GzPath, Bz2Path, NonsPath, <<"a",".","g","m">>}

\* mv.convert(atomspace): every argument but data is left at its default
ConvertDefault ==
    /\ call.op = "none"
    /\ input.kind # "graph"
    /\ \E o \in Orders :
        /\ call' = [op |-> "convert", graph_annotated |-> TRUE,
                    graph_directed |-> TRUE, args |-> DefaultArgs, order |-> o]
        /\ result' = convert(Data, TRUE, TRUE, DefaultArgs, Enumerate(atomspace, o))
        /\ UNCHANGED <<atomspace, input, files>>

\* a file is stored at a path that export does not accept
StoreElsewhere == StoreCall({NonsPath})

Export ==
    /\ call.op = "none"
    /\ input.kind = "graph"
    /\ \E filepath \in ExportPaths, overwrite \in BOOLEAN :
        LET exported == export(files, Data, PyStr(filepath), overwrite)
        IN  /\ call' = [op |-> "export", filepath |-> filepath, overwrite |-> overwrite]
            /\ result' = [err |-> exported.err]
            /\ files' = exported.files
            /\ UNCHANGED <<atomspace, input>>

\* the output paths that the command line is given
HtmlPath == <<"a",".","h","t","m","l">>
CliTargets ==
    {HtmlPath, <<"a",".","j","p","g">>, <<"a",".","p","n","g">>, <<"a",".","s","v","g">>,
     GmlPath, GzPath, Bz2Path, NonsPath, <<"a","g","m","l">>, <<"h","t","m","l">>}

\* the options of the command line besides -i, -o and -f: none, or a filter
\* target with a layout method
CliOptions ==
    {[ft |-> PyNone, l |-> PyNone, fc |-> <<"atom">>, kwargs |-> PyNone],
     [ft |-> PyStr(<<"X">>), l |-> PyStr("dot"), fc |-> <<"atom">>, kwargs |-> PyNone]}

MaxFiles == 2

\* a run of mevis -i source [-o target] [-f] [-ft X -l dot]; a file at source
\* is, as the command expects, one of Atomese code; at most MaxFiles files
\* are looked at
CliCall(T, F, O) ==
    /\ call.op = "none"
    /\ \E source \in {ScmPath, NoPath}, target \in {PyNone} \cup {PyStr(t) : t \in T},
          force \in F, options \in O, o \in Orders :
        LET args == [i |-> PyStr(source), o |-> target, force |-> force,
                     b |-> PyStr("d3"), l |-> options.l, ft |-> options.ft,
                     fc |-> options.fc, fm |-> PyStr("include"),
                     kwargs |-> options.kwargs]
            run == parse(files, args, o)
        IN  /\ exists(files, source) => files[source].kind = "scm"
            /\ Cardinality(DOMAIN run.files) <= MaxFiles
            /\ call' = [op |-> "cli", args |-> args]
            /\ result' = [status |-> run.status, steps |-> run.steps]
            /\ files' = run.files
            /\ UNCHANGED <<atomspace, input>>

\* the arguments that plot is called with: ones that it accepts ...
PlotLayouts ==
    {DefaultLayout,
     [DefaultLayout EXCEPT !.scale_x = PyInt(2), !.mirror_x = PyBool(TRUE),
                           !.center_y = PyBool(FALSE)]}

PlotFilters ==
    {DefaultFilter,
     [DefaultFilter EXCEPT !.target = PyStr(<<"X">>), !.context = PyStr("in")]}

PlotGraphs ==
    {GraphArgs(DefaultArgs),
     [annotated |-> TRUE, directed |-> FALSE,
      args |-> [DefaultArgs EXCEPT !.edge_label = PyStr(<<"e">>)]],
     GraphArgs([DefaultArgs EXCEPT !.node_label = PyInt(42)])}

PlotAccepted ==
    [backend : {PyStr("vis")}, layout_method : {PyNone, PyStr("dot")},
     lay : PlotLayouts, filt : PlotFilters, gr : PlotGraphs]

\* ... and ones with one argument that is of the wrong type or unknown
PlotBase ==
    [backend : {PyStr("d3")}, layout_method : {PyNone, PyStr("neato")},
     lay : {DefaultLayout}, filt : {DefaultFilter}, gr : {GraphArgs(DefaultArgs)}]

PlotRefused ==
    UNION {{[a EXCEPT !.backend = PyInt(42)],
            [a EXCEPT !.backend = PyStr("nonsense")],
            [a EXCEPT !.layout_method = PyInt(42)],
            [a EXCEPT !.layout_method = PyStr("nonsense")],
            [a EXCEPT !.lay.scale_x = PyStr("a")],
            [a EXCEPT !.lay.scale_y = PyStr("a")],
            [a EXCEPT !.lay.center_x = PyInt(1)],
            [a EXCEPT !.filt.context = PyInt(1)],
            [a EXCEPT !.filt.mode = PyStr("nonsense")]} : a \in PlotBase}

\* a call of plot with arguments of A
PlotCall(A) ==
    /\ call.op = "none"
    /\ \E a \in A, o \in Orders :
        /\ call' = [op |-> "plot", args |-> a, order |-> o]
        /\ result' = plot(Data, a.backend, a.layout_method, a.lay, a.filt, a.gr, <<>>,
                          Enumerate(atomspace, o))
        /\ UNCHANGED <<atomspace, input, files>>

Plot == PlotCall(PlotAccepted \cup PlotRefused)

Cli == CliCall(CliTargets, BOOLEAN, CliOptions)

\* runs of mevis -i source [-o target] -f [-ft X -fc in] [-l dot]
StepOptions ==
    {[ft |-> ft, l |-> l, fc |-> <<"in">>, kwargs |-> PyNone] :
        ft \in {PyNone, PyStr(<<"X">>)}, l \in {PyNone, PyStr("dot")}}

CliSteps == CliCall({HtmlPath, GzPath}, {TRUE}, StepOptions)

\* plot is called with data that is an AtomSpace or a list
PlotAtoms ==
    /\ input.kind # "graph"
    /\ PlotCall({a \in PlotAccepted : a.lay = DefaultLayout /\ a.gr.directed})

\* the texts that -fc is given: the six words, literals of pairs, and texts
\* that are neither
ContextTexts ==
    {<<w>> : w \in FILTER_CONTEXTS}
    \cup {<<"(", c, ",", n, ")">> : c \in {"'in'", "'out'", "'both'"}, n \in {"0", "2"}}
    \cup {<<"nonsense">>, <<"'in'">>, <<"2">>,
          <<"(", "'in'", ",", "-1", ")">>, <<"(", "'nonsense'", ",", "2", ")">>,
          <<"(", "'in-tree'", ",", "1", ")">>, <<"(", "'in'", ",", "'b'", ")">>,
          <<"(", "2", ",", "'in'", ")">>, <<"(", "'in'", ",", ")">>, <<"(", "'in'", ")">>,
          <<"(", ")">>, <<"(", "'in'", ",", "1", ",", "2", ")">>,
          <<"(", "'in'", ",", "2", ",", ")">>, <<"(", "'in'", "2", ")">>,
          <<"[", "'in'", ",", "2", "]">>}

ContextOptions ==
    {[ft |-> ft, l |-> PyNone, fc |-> fc, kwargs |-> PyNone] :
        ft \in {PyNone, PyStr(<<"X">>)}, fc \in ContextTexts}

\* runs of mevis -i source [-ft X] -fc context
CliContext == CliCall({}, {FALSE}, ContextOptions)

\* the entries that --kwargs is given
KwargsValues ==
    {<<>>,
     << <<"edge_curvature", "=", "4">> >>,
     << <<"node_label_data_source", "=", "'id'">>, <<"show_node", "=", "False">> >>,
     << <<"node_label_data_source", "=", "id">> >>,
     << <<"edge_curvature", "=", "4">>, <<"edge_curvature", "=", "0">> >>,
     << <<"edge_curvature">>, <<"4">> >>,
     << <<"show_node", "=", "False">>, <<"edge_curvature">> >>,
     << <<"a", "=", "b", "=", "4">> >>,
     << <<>> >>,
     << <<"=", "4">> >>}

KwargsOptions ==
    {[ft |-> PyNone, l |-> PyNone, fc |-> <<"atom">>, kwargs |-> PyList(v)] :
        v \in KwargsValues}

\* runs of mevis -i source [-o a.html] -f --kwargs entries
CliKwargs == CliCall({HtmlPath}, {TRUE}, KwargsOptions)

\* the positions that calc_layout can return for a node, the scales
\* (scale_x, scale_y) that layout is given
Points == {<<0, 0>>, <<2, -4>>, <<28, 6>>}
Scales == {<<1, 1>>, <<2, -1>>, <<0, 3>>}

\* a call of layout: Graphviz or NetworkX puts every node of the graph at
\* some position
Layout ==
    /\ call.op = "none"
    /\ \E o \in Orders, scale \in Scales,
          mirror_x \in BOOLEAN, mirror_y \in BOOLEAN,
          center_x \in BOOLEAN, center_y \in BOOLEAN :
        LET ord == Enumerate(atomspace, o)
            graph == IF input.kind = "graph" THEN input.val
                     ELSE convert(Data, TRUE, TRUE, DefaultArgs, ord).graph
        IN  \E pos \in [DOMAIN graph.nodes -> Points] :
              /\ call' = [op |-> "layout", pos |-> pos, scale |-> scale,
                          mirror |-> <<mirror_x, mirror_y>>,
                          center |-> <<center_x, center_y>>]
              /\ result' = layout_with(Data, PyStr("neato"), PyInt(scale[1]), PyInt(scale[2]),
                                       PyBool(mirror_x), PyBool(mirror_y),
                                       PyBool(center_x), PyBool(center_y), ord, pos)
              /\ UNCHANGED <<atomspace, input, files>>

\* _dfs_out(atom) or _dfs_in(atom) is called, as _expand does for every
\* matched Atom, and runs up to its while loop
DfsStart ==
    /\ call.op = "none"
    /\ \E atom \in atomspace, dir \in {"in", "out"}, o \in Orders :
        /\ call' = [op |-> "dfs", atom |-> atom, dir |-> dir, order |-> o]
        /\ result' = [err |-> "none", atoms |-> <<atom>>,
                      stack |-> IF dir = "out" THEN atom.out
                                ELSE incoming(atom, Enumerate(atomspace, o))]
    /\ UNCHANGED <<atomspace, input, files>>

\* one pass of the while loop
DfsStep ==
    /\ call.op = "dfs"
    /\ result.stack # <<>>
    /\ LET next == dfs_step(result.atoms, result.stack, call.dir,
                            Enumerate(atomspace, call.order))
       IN  result' = [result EXCEPT !.atoms = next.atoms, !.stack = next.stack]
    /\ UNCHANGED <<atomspace, input, call, files>>

Build == AddNode \/ AddLink \/ UseAtomSpace \/ UseList

Next == Build \/ UseSublist \/ UseResult \/ Filter \/ Convert

Spec == Init /\ [][Next]_vars

NextAtom == Build \/ FilterAtom

SpecAtom == Init /\ [][NextAtom]_vars

NextContext == Build \/ FilterContext

SpecContext == Init /\ [][NextContext]_vars

NextInvalid == Build \/ FilterInvalid

SpecInvalid == Init /\ [][NextInvalid]_vars

NextConvert == Build \/ UseSublist \/ Convert

SpecConvert == Init /\ [][NextConvert]_vars

NextChain == Build \/ UseResult \/ FilterFirst \/ FilterSecond

SpecChain == Init /\ [][NextChain]_vars

NextStore == AddNode \/ AddLink \/ Create \/ Store \/ Load \/ GoOn

SpecStore == Init /\ [][NextStore]_vars

NextExport ==
    AddNode \/ UseAtomSpace \/ ConvertDefault \/ UseGraph \/ StoreElsewhere \/ Export \/ GoOn

SpecExport == Init /\ [][NextExport]_vars

NextCli == AddNode \/ StoreDefault \/ GoOn \/ Cli

SpecCli == Init /\ [][NextCli]_vars

NextPlot ==
    AddNode \/ AddLink \/ UseAtomSpace \/ UseList \/ ConvertDefault \/ UseGraph \/ Plot

SpecPlot == Init /\ [][NextPlot]_vars

NextSteps ==
    AddNode \/ UseAtomSpace \/ UseList \/ PlotAtoms
    \/ StoreDefault \/ CliSteps \/ GoOn

SpecSteps == Init /\ [][NextSteps]_vars

NextCliContext == AddNode \/ AddLink \/ StoreDefault \/ GoOn \/ CliContext

SpecCliContext == Init /\ [][NextCliContext]_vars

NextCliKwargs == AddNode \/ StoreDefault \/ GoOn \/ CliKwargs

SpecCliKwargs == Init /\ [][NextCliKwargs]_vars

NextLayout == AddNode \/ AddLink \/ UseAtomSpace \/ ConvertDefault \/ UseGraph \/ Layout

SpecLayout == Init /\ [][NextLayout]_vars

NextDfs == AddNode \/ AddLink \/ DfsStart \/ DfsStep

\* a call that has started goes on: nothing but the loop's condition stops it
SpecDfs == Init /\ [][NextDfs]_vars /\ WF_vars(DfsStep)

NextProperties == Build \/ ConvertProperties

SpecProperties == Init /\ [][NextProperties]_vars

NextInspect == Build \/ ConvertAtoms \/ UseGraph \/ Inspect

SpecInspect == Init /\ [][NextInspect]_vars

\* ------------------------------------------------- terms of the claims
\* two characters that are equal, or the two cases of one letter
SameLetter(c, d) ==
    \/ c = d
    \/ \E i \in DOMAIN UpperCase : {c, d} = {UpperCase[i], LowerCase[i]}

\* two strings that are equal ignoring capitalization
EqualIgnoringCase(s, t) ==
    /\ Len(s) = Len(t)
    /\ \A i \in DOMAIN s : SameLetter(s[i], t[i])

RECURSIVE Matches(_, _)
\* the Atom matches the target
Matches(target, atom) ==
    CASE target.kind = "str" ->
           \/ EqualIgnoringCase(atom.name, target.val)
           \/ EqualIgnoringCase(type_name(atom), target.val)
      [] target.kind = "int" -> atom.type = target.val
      [] target.kind = "Atom" -> atom = target.val
      [] target.kind = "Callable" -> target.val = "is_link" /\ is_link(atom)
      [] target.kind = "list" ->
           \E i \in DOMAIN target.val : Matches(target.val[i], atom)

\* the arguments and the outcome of the filter call that has returned
Called == call.op = "filter"
Returned == Called /\ result.err = "none"
Ord == Enumerate(atomspace, call.order)
Given == iterate(Data, Ord)
ContextIs(c) == call.context.kind = "str" /\ call.context.val = c
ModeIs(m) == call.mode.val = m
NoDuplicates(s) == \A i, j \in DOMAIN s : s[i] = s[j] => i = j

\* the Atoms matched by the target of the call
Matched ==
    IF call.target.kind = "Atom" THEN {call.target.val}
    ELSE {a \in Range(Given) : Matches(call.target, a)}

\* the direction and the size of the context of the call
Direction ==
    IF call.context.kind = "tuple" THEN call.context.val[1].val ELSE call.context.val
Size == IF call.context.kind = "tuple" THEN call.context.val[2].val ELSE 1

\* b is one step from a: along a.incoming, along a.out, or along either
Step(a, b, dir) ==
    \/ dir \in {"in", "both"} /\ b \in atomspace /\ a \in Range(b.out)
    \/ dir \in {"out", "both"} /\ b \in Range(a.out)

RECURSIVE Within(_, _, _)
\* the Atoms at distance <= n from an Atom of M
Within(M, dir, n) ==
    IF n = 0 THEN M
    ELSE LET W == Within(M, dir, n - 1)
         IN  W \cup {b \in atomspace : \E a \in W : Step(a, b, dir)}

\* the smallest set that holds M and is closed under steps in direction dir
Closure(M, dir) ==
    LET closed == {S \in SUBSET (atomspace \cup M) :
                     /\ M \subseteq S
                     /\ \A a \in S : \A b \in atomspace : Step(a, b, dir) => b \in S}
    IN  {a \in atomspace \cup M : \A S \in closed : a \in S}

\* ------------------------------------------------------------- claims
\* C1: filter with context 'atom' and mode 'include' returns exactly the
\* Atoms of data that match a str, int or Callable target, in the iteration
\* order of data; a str matches the name or the type name ignoring capitalization.
C1_IncludeReturnsMatches ==
    (Called /\ ContextIs("atom") /\ ModeIs("include")
       /\ call.target.kind \in {"str", "int", "Callable"})
    => result = Return(SelectSeq(Given, LAMBDA a : Matches(call.target, a)))

\* a str target in another capitalization than the name it matches, with
\* a matching and a not matching Atom in data
C1_Witness ==
    /\ Called /\ ContextIs("atom") /\ ModeIs("include")
    /\ call.target = PyStr(<<"X">>)
    /\ result.err = "none"
    /\ result.atoms # <<>>
    /\ Len(result.atoms) < Len(Given)

\* C2: mode 'exclude' returns exactly the Atoms of data that are not in the
\* result of mode 'include' for the same data, target and context, in the
\* iteration order of data.
C2_ExcludeIsComplement ==
    (Returned /\ ModeIs("exclude"))
    => result.atoms =
         SelectSeq(Given, LAMBDA a :
            a \notin Range(filter(Data, call.target, call.context,
                                  PyStr("include"), Ord).atoms))

\* an exclude call with an expanded selection that keeps some Atoms of data
\* and drops others
C2_Witness ==
    /\ Returned /\ ModeIs("exclude") /\ ContextIs("in")
    /\ result.atoms # <<>>
    /\ Len(result.atoms) < Len(Given)
    /\ Cardinality(Within(Matched, "in", 1)) > Cardinality(Matched)

\* C3: every Atom of the list that filter returns is an element of data.
C3_ResultWithinData ==
    Returned => Range(result.atoms) \subseteq Range(Given)

\* C4: for a context 'in', 'out', 'both' (size 1) or a tuple with size n >= 0
\* the selection is exactly the set of Atoms at distance <= n from a matched
\* Atom, and size 0 leaves the matched Atoms as they are.
C4_SelectionIsNeighbourhood ==
    (Returned /\ ModeIs("include") /\ Direction \in {"in", "out", "both"})
    => /\ Range(result.atoms) = Within(Matched, Direction, Size)
       /\ Size = 0 =>
            result.atoms = IF call.target.kind = "Atom" THEN <<call.target.val>>
                           ELSE SelectSeq(Given, LAMBDA a : Matches(call.target, a))

\* a tuple context of size 2 that selects an Atom at distance 2 which is
\* not at distance 1
C4_Witness ==
    /\ Returned /\ ModeIs("include") /\ call.context.kind = "tuple" /\ Size = 2
    /\ Range(result.atoms) # Within(Matched, Direction, 1)
    /\ Matched # {}

\* C5: for the context 'in-tree' (resp. 'out-tree') the selection is the
\* smallest set that holds every matched Atom and is closed under
\* atom.incoming (resp. atom.out), each Atom at most once.
C5_SelectionIsClosure ==
    (Returned /\ ModeIs("include") /\ (ContextIs("in-tree") \/ ContextIs("out-tree")))
    => /\ Range(result.atoms) =
            Closure(Matched, IF ContextIs("in-tree") THEN "in" ELSE "out")
       /\ NoDuplicates(result.atoms)

\* an out-tree whose selection reaches further than one step, from a list
\* that holds the matched Atom twice
C5_Witness ==
    /\ Returned /\ ModeIs("include") /\ ContextIs("out-tree")
    /\ Range(result.atoms) # Within(Matched, "out", 1)
    /\ ~NoDuplicates(Given)
    /\ Matched # {}

IncludeOf(context) ==
    Range(filter(Data, call.target, context, PyStr("include"), Ord).atoms)

\* C6: the include result of ('both', 2) holds every Atom of the include
\* results of ('in', 2) and of ('out', 2).
C6_BothHoldsInAndOut ==
    (Returned /\ ModeIs("include")
       /\ call.context = PyTuple(<<PyStr("both"), PyInt(2)>>))
    => (IncludeOf(PyTuple(<<PyStr("in"), PyInt(2)>>))
        \cup IncludeOf(PyTuple(<<PyStr("out"), PyInt(2)>>)))
       \subseteq Range(result.atoms)

\* an AtomSpace where ('both', 2) selects strictly more
C6_Witness ==
    /\ Returned /\ ModeIs("include")
    /\ call.context = PyTuple(<<PyStr("both"), PyInt(2)>>)
    /\ (IncludeOf(PyTuple(<<PyStr("in"), PyInt(2)>>))
        \cup IncludeOf(PyTuple(<<PyStr("out"), PyInt(2)>>)))
       # Range(result.atoms)

\* the contexts the claim calls invalid
InvalidContext(context) ==
    \/ context.kind = "str" /\ context.val \notin
         {"atom", "in", "out", "both", "in-tree", "out-tree"}
    \/ /\ context.kind = "tuple"
       /\ Len(context.val) = 2
       /\ \/ context.val[1].kind # "str"
          \/ context.val[1].val \notin {"in", "out", "both"}
          \/ context.val[2].kind # "int"
          \/ context.val[2].val < 0

C8_ChainExcludes ==
    (Called /\ Chained /\ ContextIs("atom") /\ ModeIs("exclude"))
    => result = Return(SelectSeq(input.val, LAMBDA a : ~Matches(call.target, a)))

\* a chain whose second step drops some Atoms of the first result and
\* keeps others
C8_Witness ==
    /\ Returned /\ Chained /\ ContextIs("atom") /\ ModeIs("exclude")
    /\ result.atoms # <<>>
    /\ Len(result.atoms) < Len(input.val)
    /\ Len(input.val) >= 3

\* C9: a list target selects the union of the selections of its entries.
C9_ListIsUnion ==
    (Returned /\ ContextIs("atom") /\ ModeIs("include") /\ call.target.kind = "list")
    => Range(result.atoms) =
         UNION {Range(filter(Data, call.target.val[i], call.context,
                             call.mode, Ord).atoms) : i \in DOMAIN call.target.val}

\* the call of convert that has returned
Converted == call.op = "convert" /\ result.err = "none"

\* C10: with graph_directed=True the nodes of the graph are exactly the uids
\* of the Atoms in data and the edges exactly the pairs (uid(a), uid(b)) with
\* a and b in data and b in a.out.
C10_GraphOfData ==
    (Converted /\ call.graph_directed)
    => /\ DOMAIN result.graph.nodes = {to_uid(a) : a \in Range(Given)}
       /\ DOMAIN result.graph.edges =
            {<<to_uid(e[1]), to_uid(e[2])>> :
                e \in {p \in Range(Given) \X Range(Given) : p[2] \in Range(p[1].out)}}

\* a directed graph with an edge, of a list that holds a Link and lacks
\* one of its outgoing Atoms
C10_Witness ==
    /\ Converted /\ call.graph_directed
    /\ input.kind = "list"
    /\ DOMAIN result.graph.edges # {}
    /\ \E a \in Range(Given) : \E b \in Range(a.out) : b \notin Range(Given)

\* C11: with graph_annotated=False every node and every edge of the graph has
\* no attributes, whatever the node_* and edge_* arguments are, and the nodes
\* and edges are those of the graph that graph_annotated=True gives.
C11_UnannotatedIsBare ==
    (Converted /\ ~call.graph_annotated)
    => LET annotated == convert(Data, TRUE, call.graph_directed, call.args, Ord).graph
       IN  /\ \A n \in DOMAIN result.graph.nodes : DOMAIN result.graph.nodes[n] = {}
           /\ \A e \in DOMAIN result.graph.edges : DOMAIN result.graph.edges[e] = {}
           /\ DOMAIN result.graph.nodes = DOMAIN annotated.nodes
           /\ DOMAIN result.graph.edges = DOMAIN annotated.edges

\* an unannotated graph with an edge, of a call that passes annotation arguments
C11_Witness ==
    /\ Converted /\ ~call.graph_annotated
    /\ call.args # DefaultArgs
    /\ DOMAIN result.graph.edges # {}

\* the Atoms at the two ends of an edge
Ends(e) == IF result.graph.directed THEN {e[1].id, e[2].id} ELSE {n.id : n \in e}

\* the values that the attribute key takes over the nodes or edges in attrs
ValuesOf(attrs, key) ==
    {attrs[x][key] : x \in {y \in DOMAIN attrs : key \in DOMAIN attrs[y]}}

\* C12: no attribute of an annotated graph has the value None; with all
\* annotation arguments None a Node has color 'red' and shape 'rectangle', a
\* Link has neither, every node has a label and a hover text, an edge has
\* color 'red' unless both its Atoms are Links and then has no color; so each
\* of node color, node shape and edge color takes at most one value.
C12_DefaultAnnotations ==
    (Converted /\ call.graph_annotated)
    => LET nodes == result.graph.nodes
           edges == result.graph.edges
           red == PyStr(<<"r","e","d">>)
       IN  /\ \A n \in DOMAIN nodes : \A k \in DOMAIN nodes[n] : nodes[n][k] # PyNone
           /\ \A e \in DOMAIN edges : \A k \in DOMAIN edges[e] : edges[e][k] # PyNone
           /\ call.args = DefaultArgs
              => /\ \A n \in DOMAIN nodes :
                      /\ {"label", "hover"} \subseteq DOMAIN nodes[n]
                      /\ IF is_node(n.id)
                         THEN /\ {"color", "shape"} \subseteq DOMAIN nodes[n]
                              /\ nodes[n].color = red
                              /\ nodes[n].shape = PyStr(<<"r","e","c","t","a","n","g","l","e">>)
                         ELSE DOMAIN nodes[n] \cap {"color", "shape"} = {}
                 /\ \A e \in DOMAIN edges :
                      IF \A a \in Ends(e) : is_link(a)
                      THEN "color" \notin DOMAIN edges[e]
                      ELSE "color" \in DOMAIN edges[e] /\ edges[e].color = red
                 /\ Cardinality(ValuesOf(nodes, "color")) <= 1
                 /\ Cardinality(ValuesOf(nodes, "shape")) <= 1
                 /\ Cardinality(ValuesOf(edges, "color")) <= 1

\* a default-annotated graph with a Node, a Link, an edge between a Link and
\* a Node and an edge between two Links
C12_Witness ==
    /\ Converted /\ call.graph_annotated /\ call.args = DefaultArgs
    /\ \E e \in DOMAIN result.graph.edges : \A a \in Ends(e) : is_link(a)
    /\ \E e \in DOMAIN result.graph.edges : \E a \in Ends(e) : is_node(a)

\* the call of inspect that has returned
Inspected == call.op = "inspect" /\ result.err = "none"

RECURSIVE Sum(_)
\* the sum of the counts of a dict
Sum(f) ==
    IF DOMAIN f = {} THEN 0
    ELSE LET k == CHOOSE x \in DOMAIN f : TRUE
         IN  f[k] + Sum([x \in DOMAIN f \ {k} |-> f[x]])

\* C13: for an AtomSpace or a list of Atoms, atoms = nodes + links = the
\* number of Atoms iterated and nodes = the number of them that are Nodes;
\* count_details=True adds 'types', whose counts sum to atoms, and
\* count_details=False gives exactly the keys atoms, nodes and links.
C13_AtomCounts ==
    (Inspected /\ input.kind # "graph")
    => /\ result.stats.atoms = result.stats.nodes + result.stats.links
       /\ result.stats.atoms = Len(Given)
       /\ result.stats.nodes = Cardinality({i \in DOMAIN Given : is_node(Given[i])})
       /\ IF call.count_details
          THEN /\ DOMAIN result.stats = {"atoms", "nodes", "links", "types"}
               /\ Sum(result.stats.types) = result.stats.atoms
          ELSE DOMAIN result.stats = {"atoms", "nodes", "links"}

\* the detailed counts of a list that holds a Link twice
C13_Witness ==
    /\ Inspected /\ call.count_details
    /\ input.kind = "list"
    /\ result.stats.links >= 2 /\ result.stats.nodes = 0

\* C14: for a graph, nodes and edges are the numbers of nodes and edges;
\* count_details=True adds node_properties and edge_properties, which hold,
\* for each attribute key that some node (edge) carries, the number of
\* distinct values of it over the nodes (edges) that carry it, and no other key.
C14_GraphCounts ==
    (Inspected /\ input.kind = "graph")
    => LET nodes == input.val.nodes
           edges == input.val.edges
           Same(v, w) ==
             v = w \/ (v.kind \in {"int", "float"} /\ w.kind \in {"int", "float"}
                       /\ v.val = w.val)
           Distinct(attrs, key) ==
             Cardinality({{w \in ValuesOf(attrs, key) : Same(v, w)} :
                            v \in ValuesOf(attrs, key)})
           Carried(attrs) == {k \in UNION {DOMAIN attrs[x] : x \in DOMAIN attrs} : TRUE}
       IN  /\ result.stats.nodes = Cardinality(DOMAIN nodes)
           /\ result.stats.edges = Cardinality(DOMAIN edges)
           /\ IF call.count_details
              THEN /\ DOMAIN result.stats
                        = {"nodes", "edges", "node_properties", "edge_properties"}
                   /\ DOMAIN result.stats.node_properties = Carried(nodes)
                   /\ DOMAIN result.stats.edge_properties = Carried(edges)
                   /\ \A k \in Carried(nodes) :
                        result.stats.node_properties[k] = Distinct(nodes, k)
                   /\ \A k \in Carried(edges) :
                        result.stats.edge_properties[k] = Distinct(edges, k)
              ELSE DOMAIN result.stats = {"nodes", "edges"}

\* the detailed counts of a graph where several nodes share a color, the
\* labels differ, and only some edges carry a color
C14_Witness ==
    /\ Inspected /\ input.kind = "graph" /\ call.count_details
    /\ "color" \in DOMAIN result.stats.node_properties
    /\ result.stats.node_properties["color"] = 1
    /\ result.stats.node_properties["label"] >= 2
    /\ Cardinality({n \in DOMAIN input.val.nodes : "color" \in DOMAIN input.val.nodes[n]}) >= 2
    /\ \E e \in DOMAIN input.val.edges : "color" \notin DOMAIN input.val.edges[e]
    /\ "color" \in DOMAIN result.stats.edge_properties

\* a step that is a call of store
StoreStep == call.op = "none" /\ call'.op = "store"

KnownStoreMethod(method) == method.val \in {"basic", "file-storage-node"}

KnownLoadMethod(method) == method.val \in {"basic", "primitive", "fast", "python"}

\* C15: store with overwrite=False raises FileExistsError when there is a file
\* at filepath, and leaves the file and the AtomSpace as they are; with
\* overwrite=True the file is overwritten.  An unknown method raises
\* ValueError, whether or not the file exists, and nothing is written.
C15_StoreRefusesToOverwrite ==
    [][StoreStep =>
        /\ ~KnownStoreMethod(call'.method)
           => /\ result'.err = "ValueError"
              /\ files' = files /\ atomspace' = atomspace
        /\ (KnownStoreMethod(call'.method) /\ isfile(files, call'.filepath))
           => IF call'.overwrite
              THEN /\ result'.err = "none"
                   /\ files'[call'.filepath] = Atomese(atomspace')
              ELSE /\ result'.err = "FileExistsError"
                   /\ files' = files /\ atomspace' = atomspace]_vars

\* store has refused to overwrite a file that differs from the AtomSpace
C15_Witness ==
    /\ call.op = "store" /\ result.err = "FileExistsError"
    /\ files[call.filepath] # Atomese(atomspace)
    /\ atomspace # {}

Reloaded == load(files', PyStr(call'.filepath), PyStr("primitive"))

ExportStep == call.op = "none" /\ call'.op = "export"

\* the filepath is some text followed by gml, gml.gz or gml.bz2
EndsInGml(filepath) ==
    \E i \in 0..Len(filepath) :
        SubSeq(filepath, i + 1, Len(filepath))
            \in {<<"g","m","l">>, <<"g","m","l",".","g","z">>,
                 <<"g","m","l",".","b","z","2">>}

\* C18 as stated: export writes only to a filepath that ends in gml, gml.gz or
\* gml.bz2; any other filepath raises ValueError, an existing file with
\* overwrite=False raises FileExistsError, and in both cases the files are
\* left as they are; with overwrite=True an existing file is replaced.
C18_ExportRaises ==
    [][ExportStep =>
        /\ ~EndsInGml(call'.filepath) => result'.err = "ValueError"
        /\ (isfile(files, call'.filepath) /\ ~call'.overwrite)
           => result'.err = "FileExistsError"
        /\ result'.err # "none" => files' = files
        /\ files' # files => EndsInGml(call'.filepath)
        /\ (EndsInGml(call'.filepath) /\ isfile(files, call'.filepath) /\ call'.overwrite)
           => /\ result'.err = "none"
              /\ files'[call'.filepath] = Gml(input.val)]_vars

\* C18 amended: any filepath that does not end in gml, gml.gz or gml.bz2
\* raises ValueError, and an existing file at a filepath that does end so
\* raises FileExistsError with overwrite=False; the rest as stated.
C18_ExportRaisesInOrder ==
    [][ExportStep =>
        /\ ~EndsInGml(call'.filepath) => result'.err = "ValueError"
        /\ (EndsInGml(call'.filepath) /\ isfile(files, call'.filepath) /\ ~call'.overwrite)
           => result'.err = "FileExistsError"
        /\ result'.err # "none" => files' = files
        /\ files' # files => EndsInGml(call'.filepath)
        /\ (EndsInGml(call'.filepath) /\ isfile(files, call'.filepath) /\ call'.overwrite)
           => /\ result'.err = "none"
              /\ files'[call'.filepath] = Gml(input.val)]_vars

\* export has refused to overwrite the GML file of another graph
C18_Witness ==
    /\ call.op = "export" /\ result.err = "FileExistsError"
    /\ files[call.filepath].kind = "gml"
    /\ files[call.filepath] # Gml(input.val)

\* a step that is a run of the command line
CliStep == call.op = "none" /\ call'.op = "cli"

\* the path is some text followed by suffix
EndsIn(path, suffix) ==
    \E i \in 0..Len(path) : SubSeq(path, i + 1, Len(path)) = suffix

PlotSuffixes ==
    [html |-> <<".","h","t","m","l">>, jpg |-> <<".","j","p","g">>,
     png |-> <<".","p","n","g">>, svg |-> <<".","s","v","g">>]

GmlSuffixes ==
    {<<".","g","m","l">>, <<".","g","m","l",".","g","z">>,
     <<".","g","m","l",".","b","z","2">>}

\* the output path is one that the command line accepts
Accepted(path) ==
    \/ \E f \in DOMAIN PlotSuffixes : EndsIn(path, PlotSuffixes[f])
    \/ \E x \in GmlSuffixes : EndsIn(path, x)

\* C19: when the output path exists and --force is not given, the run ends
\* with a non-zero exit status before anything is loaded, filtered, converted,
\* laid out, plotted or exported, and the files are as they were; with --force
\* the same command, of an input file that exists, ends with exit status 0.
C19_CliRefusesToOverwrite ==
    [][(CliStep /\ call'.args.o.kind # "None" /\ isfile(files, call'.args.o.val)) =>
        IF ~call'.args.force
        THEN /\ result'.status # 0
             /\ result'.steps = <<>>
             /\ files' = files
        ELSE (isfile(files, call'.args.i.val) /\ Accepted(call'.args.o.val))
             => /\ result'.status = 0
                /\ result'.steps # <<>>]_vars

\* a run without --force that was refused for the output file of an earlier
\* run, with an input file that exists
C19_Witness ==
    /\ call.op = "cli" /\ ~call.args.force
    /\ call.args.o.kind # "None"
    /\ isfile(files, call.args.o.val) /\ isfile(files, call.args.i.val)
    /\ result.status # 0 /\ result.steps = <<>>

\* the output actions among the steps of a run
OutputActions(steps) ==
    {i \in DOMAIN steps :
        steps[i] \in {"display", "export_html", "export_jpg", "export_png",
                      "export_svg", "export"}}

\* C20: an output path that does not end with .html, .jpg, .png, .svg, .gml,
\* .gml.gz or .gml.bz2 is not accepted; a run that is accepted does exactly
\* one output action: without output path the plot is displayed, with a
\* .html, .jpg, .png or .svg path a plot is made and exported in that format,
\* with a .gml, .gml.gz or .gml.bz2 path the graph is exported as GML and no
\* plot is made.
C20_OneOutputAction ==
    call.op = "cli"
    => LET o == call.args.o
           steps == result.steps
           last == steps[Len(steps)]
       IN  /\ (o.kind # "None" /\ ~Accepted(o.val))
              => result.status # 0 /\ steps = <<>>
           /\ result.status = 0
              => /\ o.kind # "None" => Accepted(o.val)
                 /\ Cardinality(OutputActions(steps)) = 1
                 /\ last \in {"display", "export_html", "export_jpg", "export_png",
                              "export_svg", "export"}
                 /\ o.kind = "None" => last = "display" /\ "plot" \in Range(steps)
                 /\ \A f \in DOMAIN PlotSuffixes :
                      (o.kind # "None" /\ EndsIn(o.val, PlotSuffixes[f]))
                      => /\ "plot" \in Range(steps)
                         /\ last = CASE f = "html" -> "export_html"
                                     [] f = "jpg" -> "export_jpg"
                                     [] f = "png" -> "export_png"
                                     [] f = "svg" -> "export_svg"
                         /\ files[o.val].kind = f
                 /\ (o.kind # "None" /\ \E x \in GmlSuffixes : EndsIn(o.val, x))
                    => /\ last = "export"
                       /\ "plot" \notin Range(steps)
                       /\ files[o.val].kind = "gml"

\* a run with a filter target and a layout that has exported a compressed
\* GML file
C20_Witness ==
    /\ call.op = "cli" /\ result.status = 0
    /\ call.args.o = PyStr(GzPath)
    /\ result.steps = <<"load", "filter", "convert", "layout", "export">>
    /\ DOMAIN files[GzPath].graph.nodes # {}

\* a call of plot has returned or raised
Plotted == call.op = "plot"

\* the value is a number, a truth value
IsNumber(v) == v.kind \in {"int", "float"}
IsBool(v) == v.kind = "bool"

\* the arguments a of a call of plot are ones that its argument checks let
\* pass, for data that is an AtomSpace, a list or a graph
PassesPlotChecks(a) ==
    /\ a.backend.kind = "str" /\ a.backend.val \in {"d3", "vis", "three"}
    /\ \/ a.layout_method.kind = "None"
       \/ a.layout_method.kind = "str" /\ a.layout_method.val \in LAYOUT_METHODS
    /\ IsNumber(a.lay.scale_x)
    /\ IsBool(a.lay.mirror_x) /\ IsBool(a.lay.mirror_y)
    /\ IsBool(a.lay.center_x) /\ IsBool(a.lay.center_y)
    /\ a.filt.target.kind \in {"None", "str", "int", "list", "Callable", "Atom"}
    /\ a.filt.context.kind \in {"str", "tuple"}
    /\ a.filt.mode.kind = "str" /\ a.filt.mode.val \in {"include", "exclude"}

\* C21 as stated: for data that is a graph and any value of the filter_*,
\* graph_*, node_*, edge_* and layout_* arguments, plot runs no filter, convert
\* or layout step and hands the graph unchanged to the backend.
C21_GraphIsPlottedAsGiven ==
    (Plotted /\ input.kind = "graph")
    => /\ result.err = "none"
       /\ result.steps = <<"backend">>
       /\ result.fig.graph = input.val

\* C21, amended: for data that is a graph, any value of the graph_*, node_*
\* and edge_* arguments, and any value of the other arguments that plot's
\* argument checks let pass, no filter, convert or layout step runs and the
\* backend chosen gets the graph unchanged; with a value that the checks do
\* not let pass, plot raises and nothing has run.
C21_GraphIsPlottedAsGivenWhenChecked ==
    (Plotted /\ input.kind = "graph")
    => IF PassesPlotChecks(call.args)
       THEN /\ result.err = "none"
            /\ result.steps = <<"backend">>
            /\ result.fig.graph = input.val
            /\ result.fig.backend = call.args.backend.val
       ELSE /\ result.err \in {"TypeError", "ValueError"}
            /\ result.steps = <<>>

\* a graph with nodes is plotted with a layout method, a filter target and a
\* node_label that convert does not accept
C21_Witness ==
    /\ Plotted /\ input.kind = "graph"
    /\ DOMAIN input.val.nodes # {}
    /\ call.args.layout_method = PyStr("dot")
    /\ call.args.filt.target.kind = "str"
    /\ call.args.gr.args.node_label.kind = "int"
    /\ result.err = "none" /\ result.steps = <<"backend">>

\* the exceptions that the claim names for the arguments a of plot
NamedErrors(a) ==
    {e \in {"TypeError", "ValueError"} :
        \/ e = "TypeError" /\ a.backend.kind # "str"
        \/ e = "ValueError" /\ a.backend.kind = "str"
           /\ a.backend.val \notin {"d3", "vis", "three"}
        \/ e = "TypeError" /\ a.layout_method.kind \notin {"str", "None"}
        \/ e = "ValueError" /\ a.layout_method.kind = "str"
           /\ a.layout_method.val \notin LAYOUT_METHODS
        \/ e = "TypeError" /\ ~IsNumber(a.lay.scale_x)
        \/ e = "TypeError" /\ ~IsNumber(a.lay.scale_y)}

\* C30: a backend or layout_method of the wrong type raises TypeError, an
\* unknown one ValueError, and a layout_scale_x or layout_scale_y that is no
\* number TypeError, whether layout_method is None or not and before any
\* filter, convert, layout or backend step has run.
C30_PlotValidatesFirst ==
    (Plotted /\ NamedErrors(call.args) # {})
    => /\ result.err \in NamedErrors(call.args)
       /\ result.steps = <<>>

\* the steps before the backend or the exporter, for a filter target and a
\* layout method that are given or not
StepsFor(target, method) ==
    (IF target.kind = "None" THEN <<>> ELSE <<"filter">>)
    \o <<"convert">>
    \o (IF method.kind = "None" THEN <<>> ELSE <<"layout">>)

\* s is the sequence t or the beginning of it
IsPrefix(s, t) == Len(s) <= Len(t) /\ s = SubSeq(t, 1, Len(s))

\* the graph that filter (if a target is given), then convert, then layout
\* (if a method is given) make of data
Prepared(data, filt, gr, method, lay, ord) ==
    LET atoms == IF filt.target.kind = "None" THEN data
                 ELSE PyList(filter(data, filt.target, filt.context, filt.mode, ord).atoms)
        graph == convert(atoms, gr.annotated, gr.directed, gr.args, ord).graph
    IN  IF method.kind = "None" THEN graph
        ELSE layout_with(PyGraph(graph), method, lay.scale_x, lay.scale_y,
                         lay.mirror_x, lay.mirror_y, lay.center_x, lay.center_y, ord,
                         calc_layout(graph, method.val)).graph

\* the graph in the file that a run of the command line has written
Written(content) ==
    IF content.kind = "gml" THEN content.graph ELSE content.fig.graph

\* C22: for an AtomSpace or a list of Atoms, plot and the command line run
\* filter (iff a filter target is given), then convert (once, on the output of
\* filter or on all Atoms), then layout (iff a layout method is given), and the
\* backend or the exporter gets the graph of the last of these steps.
C22_StepsInOrder ==
    /\ (Plotted /\ input.kind # "graph")
       => LET a == call.args
              steps == StepsFor(a.filt.target, a.layout_method)
          IN  IF result.err = "none"
              THEN /\ result.steps = Append(steps, "backend")
                   /\ result.fig.graph
                        = Prepared(Data, a.filt, a.gr, a.layout_method, a.lay,
                                   Enumerate(atomspace, call.order))
              ELSE IsPrefix(result.steps, steps)
    /\ (call.op = "cli" /\ result.status = 0)
       => LET a == call.args
              steps == <<"load">> \o StepsFor(a.ft, a.l)
              space == files[a.i.val].atoms
          IN  /\ IsPrefix(steps, result.steps)
              /\ \A i \in DOMAIN result.steps :
                    i > Len(steps)
                    => result.steps[i] \notin {"load", "filter", "convert", "layout"}
              /\ a.o.kind # "None"
                 => \E o \in Orders :
                       Written(files[a.o.val])
                         = Prepared(PyAtomSpace(space),
                                    [target |-> a.ft, context |-> PyStr(a.fc[1]), mode |-> a.fm],
                                    GraphArgs(DefaultArgs), a.l, DefaultLayout,
                                    Enumerate(space, o))

\* plot has run filter, convert and layout on an AtomSpace in which the filter
\* selects some Atoms but not all
C22_Witness ==
    /\ Plotted /\ input.kind = "AtomSpace"
    /\ result.err = "none"
    /\ result.steps = <<"filter", "convert", "layout", "backend">>
    /\ DOMAIN result.fig.graph.nodes # {}
    /\ Cardinality(DOMAIN result.fig.graph.nodes) < Cardinality(atomspace)

\* the texts that are the literal of a pair (c, n) with c one of 'in', 'out',
\* 'both' and n an integer that is not negative
PairLiterals ==
    {<<"(", c, ",", n, ")">> : c \in {"'in'", "'out'", "'both'"}, n \in {"0", "1", "2", "4"}}
    \cup {<<"(", c, ",", n, ",", ")">> : c \in {"'in'", "'out'", "'both'"},
                                         n \in {"0", "1", "2", "4"}}

\* C23: the command line accepts a filter context exactly when it is one of
\* the six words or the literal of a pair (c, n) with c in 'in', 'out', 'both'
\* and n >= 0: any other text ends the run with a non-zero exit status before
\* any step, and an accepted one is a context with which filter runs.
C23_ContextAccepted ==
    (call.op = "cli" /\ isfile(files, call.args.i.val))
    => IF \/ call.args.fc \in {<<w>> : w \in {"atom", "in", "out", "both", "in-tree", "out-tree"}}
          \/ call.args.fc \in PairLiterals
       THEN result.status = 0
       ELSE result.status # 0 /\ result.steps = <<>>

\* the entry has exactly one sign "=": a key before it and a value after it
KeyValue(entry) == Cardinality({i \in DOMAIN entry : entry[i] = "="}) = 1

\* the key and the value of such an entry
KeyOf(entry) == IF entry[1] = "=" THEN "" ELSE entry[1]
ValueOf(entry) == IF entry[Len(entry)] = "=" THEN "" ELSE entry[Len(entry)]

\* the Python value that a written value stands for
Evaluated(v) ==
    CASE v = "4" -> PyInt(4)
      [] v = "0" -> PyInt(0)
      [] v = "False" -> PyBool(FALSE)
      [] v = "'id'" -> PyStr("id")
      [] OTHER -> PyStr(v)

\* C24: with --kwargs, no entry or an entry that is not one key and one value
\* around one "=" ends the run with a non-zero exit status before any step,
\* the files as they were; otherwise the run goes on, and plot gets, for the
\* key of every entry, the evaluated value of the last entry with that key
\* (the written value itself when it is no literal).
C24_KwargsForwarded ==
    [][(CliStep /\ isfile(files, call'.args.i.val) /\ call'.args.kwargs.kind # "None") =>
        LET values == call'.args.kwargs.val
            target == call'.args.o
        IN  IF values = <<>> \/ \E i \in DOMAIN values : ~KeyValue(values[i])
            THEN /\ result'.status # 0
                 /\ result'.steps = <<>>
                 /\ files' = files
            ELSE /\ result'.steps # <<>>
                 /\ (result'.status = 0 /\ target.kind # "None")
                    => LET kwargs == files'[target.val].fig.kwargs
                       IN  \A i \in DOMAIN values :
                             /\ KeyOf(values[i]) \in DOMAIN kwargs
                             /\ \/ kwargs[KeyOf(values[i])] = Evaluated(ValueOf(values[i]))
                                \/ \E j \in DOMAIN values :
                                     j > i /\ KeyOf(values[j]) = KeyOf(values[i])]_vars

\* a run with two entries whose values are literals has written the figure
C24_Witness ==
    /\ call.op = "cli" /\ result.status = 0
    /\ call.args.kwargs.kind # "None" /\ Len(call.args.kwargs.val) = 2
    /\ call.args.o = PyStr(HtmlPath)
    /\ files[HtmlPath].kind = "html"
    /\ files[HtmlPath].fig.kwargs["show_node"] = PyBool(FALSE)
    /\ files[HtmlPath].fig.kwargs["node_label_data_source"] = PyStr("id")

\* a call of layout has returned
LaidOut == call.op = "layout" /\ result.err = "none"

\* the coordinates that the nodes of the returned graph have on an axis
\* (1: x, 2: y)
Coordinate(n, axis) ==
    IF axis = 1 THEN result.graph.nodes[n].x.val ELSE result.graph.nodes[n].y.val

\* the smallest and the largest position that calc_layout has computed on an
\* axis
Smallest(axis) ==
    CHOOSE v \in {call.pos[n][axis] : n \in DOMAIN call.pos} :
        \A n \in DOMAIN call.pos : v <= call.pos[n][axis]

Largest(axis) ==
    CHOOSE v \in {call.pos[n][axis] : n \in DOMAIN call.pos} :
        \A n \in DOMAIN call.pos : v >= call.pos[n][axis]

\* the largest coordinate of the returned graph is the negation of the
\* smallest
Balanced(axis) ==
    \A n \in DOMAIN result.graph.nodes :
        \E lo, hi \in DOMAIN result.graph.nodes :
            /\ Coordinate(hi, axis) = -Coordinate(lo, axis)
            /\ Coordinate(lo, axis) <= Coordinate(n, axis)
            /\ Coordinate(n, axis) <= Coordinate(hi, axis)

\* the coordinate is the computed one, not shifted, times the scale and the
\* mirror sign
Unshifted(axis) ==
    \A n \in DOMAIN result.graph.nodes :
        Coordinate(n, axis)
          = round(call.pos[n][axis] * call.scale[axis])
            * (IF call.mirror[axis] THEN -1 ELSE 1)

\* the difference of the extreme positions, its half subtracted from the
\* negated smallest position, and the shifted extreme positions are numbers
\* that a float holds: the shift is computed without rounding
ExactShift(axis) ==
    LET lo == Smallest(axis)
        hi == Largest(axis)
        half == (hi - lo) \div 2
    IN  /\ round(hi - lo) = hi - lo
        /\ round(-lo - half) = -lo - half
        /\ round(lo + (-lo - half)) = -half
        /\ round(hi + (-lo - half)) = hi - lo - half

\* C25 as stated: with center_x=True (center_y=True) the largest x (y) that
\* layout gives a node is the negation of the smallest, for all positions,
\* scales and mirror settings; with center_x=False (center_y=False) the
\* coordinate is not shifted; a graph without nodes is returned as it is,
\* without an error.
C25_LayoutCentered ==
    /\ call.op = "layout" => result.err = "none"
    /\ LaidOut
       => /\ DOMAIN result.graph.nodes = DOMAIN call.pos
          /\ \A axis \in {1, 2} :
               IF call.center[axis] THEN Balanced(axis) ELSE Unshifted(axis)
          /\ DOMAIN call.pos = {} => result.graph = new_graph(TRUE)

\* C25, amended: with center_x=True (center_y=True) the largest x (y) that
\* layout gives a node is the negation of the smallest whenever the float
\* operations that compute the shift and add it to the extreme positions are
\* exact, for all scales and mirror settings; with center_x=False
\* (center_y=False) the coordinate is not shifted; a graph without nodes is
\* returned as it is, without an error.
C25_LayoutCenteredWhenExact ==
    /\ call.op = "layout" => result.err = "none"
    /\ LaidOut
       => /\ DOMAIN result.graph.nodes = DOMAIN call.pos
          /\ \A axis \in {1, 2} :
               IF call.center[axis]
               THEN DOMAIN call.pos # {} /\ ExactShift(axis) => Balanced(axis)
               ELSE Unshifted(axis)
          /\ DOMAIN call.pos = {} => result.graph = new_graph(TRUE)

\* a graph of two nodes at different positions is centred on the x axis and
\* left as computed on the y axis, mirrored and scaled
C25_Witness ==
    /\ LaidOut
    /\ Cardinality(DOMAIN call.pos) >= 2
    /\ \E n, m \in DOMAIN call.pos : call.pos[n] # call.pos[m]
    /\ call.center = <<TRUE, FALSE>>
    /\ ExactShift(1)
    /\ call.mirror = <<TRUE, TRUE>>
    /\ call.scale = <<2, -1>>
    /\ \E n \in DOMAIN result.graph.nodes : Coordinate(n, 1) > 0

\* the neighbours that the search of the call follows from an Atom
DfsNeighbours(atom) ==
    IF call.dir = "out" THEN atom.out
    ELSE incoming(atom, Enumerate(atomspace, call.order))

RECURSIVE Paths(_, _), PathsVia(_, _)
\* the number of directed paths that lead from atom to goal
Paths(atom, goal) ==
    IF atom = goal THEN 1 ELSE PathsVia(DfsNeighbours(atom), goal)

\* the number of directed paths to goal that start at one of the neighbours
PathsVia(neighbours, goal) ==
    IF neighbours = <<>> THEN 0
    ELSE Paths(Head(neighbours), goal) + PathsVia(Tail(neighbours), goal)

\* how often the Atom is in the list
Count(atom, atoms) == Cardinality({i \in DOMAIN atoms : atoms[i] = atom})

DfsRunning == call.op = "dfs"

DfsDone == call.op = "dfs" /\ result.stack = <<>>

\* C26: on a finite AtomSpace (its outgoing relation is acyclic) a call of
\* _dfs_out or _dfs_in terminates: no Atom is ever appended more often than
\* there are directed paths to it from the start Atom, and every call that
\* has started reaches an empty stack; then every Atom is in the list once
\* for each such path, which is the list that _expand gets for 'out-tree'
\* and 'in-tree'.
C26_DfsTerminates ==
    /\ [](DfsRunning
          => /\ \A atom \in atomspace :
                  Count(atom, result.atoms) <= Paths(call.atom, atom)
             /\ Range(result.atoms) \subseteq atomspace)
    /\ [](DfsDone
          => /\ \A atom \in atomspace :
                  Count(atom, result.atoms) = Paths(call.atom, atom)
             /\ result.atoms
                  = IF call.dir = "out"
                    THEN _dfs_out(call.atom, Enumerate(atomspace, call.order))
                    ELSE _dfs_in(call.atom, Enumerate(atomspace, call.order)))
    /\ (DfsRunning ~> DfsDone)

\* a search has ended in which an Atom was reached on two paths and appended
\* twice
C26_Witness ==
    /\ DfsDone
    /\ \E atom \in atomspace :
         Count(atom, result.atoms) = 2 /\ Paths(call.atom, atom) = 2

\* a call of filter with the context 'in-tree' or 'out-tree' and the mode
\* 'include' has returned
TreeFiltered ==
    /\ call.op = "filter"
    /\ call.context \in {PyStr("in-tree"), PyStr("out-tree")}
    /\ call.mode = PyStr("include")
    /\ result.err = "none"

\* the direction of the tree context of the call
TreeDirection == IF call.context = PyStr("in-tree") THEN "in" ELSE "out"

\* what filter returns for the data and the target of the call with the
\* context (d, n)
Bounded(n) ==
    filter(Data, call.target, PyTuple(<<PyStr(TreeDirection), PyInt(n)>>), call.mode,
           Enumerate(atomspace, call.order))

\* C27: for every AtomSpace (its outgoing relation is acyclic), target and
\* direction d, as sets and with mode include: matched atoms <= result of
\* (d, n) <= result of (d, n+1) <= result of d-tree for every n >= 0, and the
\* result of (d, N) is the result of d-tree for N from the number of atoms on.
C27_TraversalsAgree ==
    TreeFiltered
    => /\ \A n \in 0..(Cardinality(atomspace) + 1) :
            /\ Bounded(n).err = "none"
            /\ Bounded(n + 1).err = "none"
            /\ Matched \subseteq Range(Bounded(n).atoms)
            /\ Range(Bounded(n).atoms) \subseteq Range(Bounded(n + 1).atoms)
            /\ Range(Bounded(n + 1).atoms) \subseteq Range(result.atoms)
       /\ \A n \in Cardinality(atomspace)..(Cardinality(atomspace) + 2) :
            Range(Bounded(n).atoms) = Range(result.atoms)

\* a tree that is deeper than one step: (d, 1) returns more than the matched
\* Atoms and less than d-tree
C27_Witness ==
    /\ TreeFiltered
    /\ Matched # {}
    /\ Range(Bounded(1).atoms) # Matched
    /\ Range(Bounded(1).atoms) # Range(result.atoms)

\* convert has returned a graph for a list of Atoms
ListConverted ==
    /\ call.op = "convert"
    /\ input.kind = "list"
    /\ result.err = "none"

\* the lists that hold the Atoms of the list given, in every order, and with
\* one of them repeated
Rearranged ==
    LET once == Arrangements(Range(input.val))
    IN  once \cup {l \o <<l[1]>> : l \in once \ {<<>>}}
             \cup {<<l[Len(l)]>> \o l : l \in once \ {<<>>}}

\* the edge of the graph that leads from the Link to an Atom it holds
EdgeOf(link, held) ==
    IF call.graph_directed THEN <<to_uid(link), to_uid(held)>>
    ELSE {to_uid(link), to_uid(held)}

\* C28: convert returns the same graph (nodes, edges, attributes of every
\* node and edge) for every list that holds the same Atoms in another order,
\* with or without an Atom repeated, and for every order in which the
\* AtomSpace enumerates its Atoms; the attributes of every edge are those
\* computed from its (source Atom, target Atom) pair.
C28_ConvertOrderIndependent ==
    ListConverted
    => /\ \A l \in Rearranged, o \in Orders :
            convert(PyList(l), call.graph_annotated, call.graph_directed, call.args,
                    Enumerate(atomspace, o))
              = result
       /\ \A e \in DOMAIN result.graph.edges :
            \E link \in Range(input.val), held \in Range(input.val) :
                /\ held \in Range(link.out)
                /\ e = EdgeOf(link, held)
                /\ result.graph.edges[e]
                     = IF call.graph_annotated
                       THEN edge_func(call.args, link, held) ELSE <<>>

\* a list of two Links, one holding the other, given in an order in which the
\* edge between them is added twice, with an annotation function of the caller
C28_Witness ==
    /\ ListConverted
    /\ call.graph_annotated
    /\ call.args.edge_label.kind = "Callable"
    /\ Len(input.val) >= 2
    /\ \E link \in Range(input.val), held \in Range(input.val) :
         /\ is_link(held)
         /\ held \in Range(link.out)
         /\ EdgeOf(link, held) \in DOMAIN result.graph.edges

\* convert was called with node_properties
PropertiesConverted == call.op = "convert" /\ call.args.node_properties.kind # "None"

\* what node_properties answers for the Atom: a value, or an exception
Answer(atom) ==
    CASE call.args.node_properties.kind = "Callable" ->
           call_properties(call.args.node_properties.val, atom)
      [] call.args.node_properties.kind = "str" ->
           IF call.args.node_properties = PyStr(<<"t", "v">>)
           THEN node_properties_tv(atom) ELSE Raised("TypeError")
      [] OTHER -> call.args.node_properties

\* the annotations of the Atom's node other than its properties, and the
\* attributes that its node has in the graph returned
Others(atom) == node_func([call.args EXCEPT !.node_properties = PyNone], atom)
Attributes(atom) == result.graph.nodes[to_uid(atom)]

\* the node has the keys of the mapping d as attributes, and its other
\* annotations where d has no such key
Merged(atom, d) ==
    /\ DOMAIN Attributes(atom) = DOMAIN Others(atom) \cup DOMAIN d
    /\ \A k \in DOMAIN d : Attributes(atom)[k] = d[k]
    /\ \A k \in DOMAIN Others(atom) \ DOMAIN d : Attributes(atom)[k] = Others(atom)[k]

\* the (key, value) pairs of a list that stand before its first element that
\* is no pair, as a mapping; a later pair overrides an earlier one
IsPair(e) == e.kind = "tuple" /\ Len(e.val) = 2
LeadingPairs(elements) ==
    LET last == IF \A i \in DOMAIN elements : IsPair(elements[i]) THEN Len(elements)
                ELSE (CHOOSE i \in DOMAIN elements :
                        /\ ~IsPair(elements[i])
                        /\ \A j \in 1..(i - 1) : IsPair(elements[j])) - 1
    IN  [k \in {elements[i].val[1] : i \in 1..last} |->
            elements[CHOOSE i \in 1..last :
                        /\ elements[i].val[1] = k
                        /\ \A j \in (i + 1)..last : elements[j].val[1] # k].val[2]]

\* convert has returned a graph that has a node for every Atom of the data
AllProcessed ==
    /\ result.err = "none"
    /\ DOMAIN result.graph.nodes = {to_uid(atom) : atom \in Range(Given)}

====
